---------------------------- MODULE Spec2Model ----------------------------
(***************************************************************************)
(* A model of the psemu instruction-level emulator core                    *)
(* (src/psemu/psemu-core/src/lib.rs), of its drivers                       *)
(* (src/psemu/psemu-cli/src/main.rs, src/psemu/psemudb/src/lib.rs) and of  *)
(* the older standalone binary (src/psemu/src/main.rs).                    *)
(*                                                                         *)
(* A u32 is the pair <<hi, lo>> of its two 16-bit halves (the model        *)
(* checker's integers are narrower than 32 bits unsigned), so              *)
(* 0xbfc00000 is W(\Hbfc0, \H0000).  All arithmetic keeps the 32-bit       *)
(* width.                                                                  *)
(***************************************************************************)
EXTENDS Integers, Sequences, FiniteSets, TLC

(***************************************************************************)
(* u32 arithmetic                                                          *)
(***************************************************************************)
Half == 2 ^ 16

W(hi, lo) == <<hi, lo>>

Hi(w) == w[1]

Lo(w) == w[2]

\* u32::wrapping_add
wrapping_add(a, b) ==
    LET lo == Lo(a) + Lo(b)
        hi == Hi(a) + Hi(b) + (lo \div Half)
    IN  W(hi % Half, lo % Half)

\* a - b on u32, defined when a >= b; the wrapped difference otherwise
wrapping_sub(a, b) ==
    LET lo == Lo(a) - Lo(b)
        borrow == IF lo < 0 THEN 1 ELSE 0
        hi == Hi(a) - Hi(b) - borrow
    IN  W((hi + Half) % Half, (lo + Half) % Half)

\* a < b on u32
Lt32(a, b) == Hi(a) < Hi(b) \/ (Hi(a) = Hi(b) /\ Lo(a) < Lo(b))

\* a >= b on u32
Ge32(a, b) == ~Lt32(a, b)

RECURSIVE And16(_, _)
And16(a, b) ==
    IF a = 0 \/ b = 0 THEN 0
    ELSE (a % 2) * (b % 2) + 2 * And16(a \div 2, b \div 2)

RECURSIVE Or16(_, _)
Or16(a, b) ==
    IF a = 0 THEN b
    ELSE IF b = 0 THEN a
    ELSE (IF a % 2 = 1 \/ b % 2 = 1 THEN 1 ELSE 0) + 2 * Or16(a \div 2, b \div 2)

\* a & b on u32
And32(a, b) == W(And16(Hi(a), Hi(b)), And16(Lo(a), Lo(b)))

\* a | b on u32
Or32(a, b) == W(Or16(Hi(a), Hi(b)), Or16(Lo(a), Lo(b)))

\* a << n on u32, 0 <= n < 32 (bits shifted out are lost, zero fill)
Shl32(a, n) ==
    IF n >= 16
    THEN W((Lo(a) * 2 ^ (n - 16)) % Half, 0)
    ELSE W((Hi(a) * 2 ^ n + (Lo(a) \div 2 ^ (16 - n))) % Half, (Lo(a) * 2 ^ n) % Half)

\* a >> n on u32, 0 <= n < 32
Shr32(a, n) ==
    IF n >= 16
    THEN W(0, Hi(a) \div 2 ^ (n - 16))
    ELSE W(Hi(a) \div 2 ^ n, (Lo(a) \div 2 ^ n) + (Hi(a) % 2 ^ n) * 2 ^ (16 - n))

\* an alignment test that looks at bit 0 only
Mod4_low_bit(a) == Lo(a) % 2

\* addr % 4
Mod4(a) == Lo(a) % 4

\* a small u32 as a number (used for 5- and 6-bit fields only)
Num(a) == Lo(a)

(***************************************************************************)
(* Program constants                                                       *)
(***************************************************************************)
PROGRAM_COUNTER_RESET_VALUE == W(\Hbfc0, \H0000)

BIOS_ADDR_RANGE ==
    [starting_addr |-> W(\Hbfc0, \H0000),
     last_addr     |-> wrapping_add(W(\Hbfc0, \H0000), W(8, 0))]   \* + 512 * 1024

MEM_CONTROL_ADDR_RANGE ==
    [starting_addr |-> W(\H1f80, \H1000),
     last_addr     |-> wrapping_add(W(\H1f80, \H1004), W(0, 32))]

RAM_SIZE_RANGE ==
    [starting_addr |-> W(\H1f80, \H1060),
     last_addr     |-> wrapping_add(W(\H1f80, \H1060), W(0, 4))]

CACHE_CONTROL_RANGE ==
    [starting_addr |-> W(\Hfffe, \H0130),
     last_addr     |-> wrapping_add(W(\Hfffe, \H0130), W(0, 4))]

\* [0xdeadbeef; 32]
RegisterSentinel == W(\Hdead, \Hbeef)

\* the length of the boot image ./data/SCPH1001.BIN: 512 * 1024 bytes
BiosLen == W(8, 0)

(***************************************************************************)
(* Instruction: bit-field extraction                                       *)
(***************************************************************************)
\* enum Opcode
Opcode(op) ==
    CASE op = 0  -> "Special"
      [] op = 15 -> "LoadUpperImmediate"
      [] op = 13 -> "OrImmediate"
      [] op = 43 -> "StoreWord"
      [] op = 9  -> "AddImmediateUnsignedWord"
      [] op = 2  -> "Jump"
      [] OTHER   -> "None"

\* a secondary-opcode table that takes every unlisted value for SLL
SecondaryOpcode_sll_default(sop) ==
    CASE sop = 37 -> "Or"
      [] OTHER    -> "ShiftLeftLogical"

\* enum SecondaryOpcode
SecondaryOpcode(sop) ==
    CASE sop = 0  -> "ShiftLeftLogical"
      [] sop = 37 -> "Or"
      [] OTHER    -> "None"

\* 31..26
sop(instr) == Opcode(Num(Shr32(instr, 26)))

\* 5..0
secondary_opcode(instr) == SecondaryOpcode(Num(And32(W(0, 63), instr)))

\* 25..21
gpr_rs(instr) == Num(And32(W(0, 31), Shr32(instr, 21)))

\* 25..21
base(instr) == Num(And32(W(0, 31), Shr32(instr, 21)))

\* 20..16
gpr_rt(instr) == Num(And32(W(0, 31), Shr32(instr, 16)))

\* a decoding of rd that keeps 6 bits
gpr_rd_6_bits(instr) == Num(And32(W(0, 63), Shr32(instr, 11)))

\* 15..11
gpr_rd(instr) == Num(And32(W(0, 31), Shr32(instr, 11)))

\* 15..0
immediate(instr) == And32(W(0, \HFFFF), instr)

\* a widening of the low 16 bits that fills with zeros
SignExtend16_zero_fill(x) == W(0, Lo(x))

\* (x as i16) as u32
SignExtend16(x) == IF Lo(x) >= 32768 THEN W(\HFFFF, Lo(x)) ELSE W(0, Lo(x))

immediate_sign_extended(instr) == SignExtend16(immediate(instr))

offset_sign_extended(instr) == SignExtend16(immediate(instr))

\* 10..6
sa(instr) == Num(And32(W(0, 31), Shr32(instr, 6)))

\* 25..0
instr_index(instr) == And32(W(\H03FF, \HFFFF), instr)

(***************************************************************************)
(* State                                                                   *)
(***************************************************************************)
VARIABLES
    pc,                  \* Cpu.pc
    next_instruction,    \* Cpu.next_instruction
    registers,           \* Cpu.registers
    instruction_history, \* Cpu.instruction_history
    bios,                \* Cpu.interconnect.bios.data: the leading bytes of the
                         \* boot image; the bytes after them are FillByte
    overflow_checks,     \* whether the build panics on integer overflow
    ret,                 \* what the last call returned to its caller
    panicked,            \* "" while the process runs, else the panic that ended it
    bus_log,             \* the bus and device accesses made by the last call
    step_log,            \* one record per run_single_cycle call made
    ncalls,              \* the number of calls made so far
    debugger,            \* the Debugger that owns the Cpu, when there is one
    standalone,          \* the standalone binary's Cpu after its last call, with
                         \* the bus accesses of that call and the panic that ended it
    channel,             \* the messages sent on the ChannelLogger's channel and not
                         \* yet received
    logs,                \* the shared log vector: Arc<Mutex<Vec<String>>>
    logs_lock,           \* who holds the Mutex of the log vector
    rx_task,             \* the receiver task spawned by ChannelLogger::new
    written              \* every message the ChannelLogger was given, in order

cpuVars == <<pc, next_instruction, registers, instruction_history>>

logVars == <<channel, logs, logs_lock, rx_task, written>>

vars == <<pc, next_instruction, registers, instruction_history, bios,
          overflow_checks, ret, panicked, bus_log, step_log, ncalls, debugger,
          standalone, channel, logs, logs_lock, rx_task, written>>

\* the Cpu struct without its interconnect
Self == [pc |-> pc, next_instruction |-> next_instruction,
         registers |-> registers, instruction_history |-> instruction_history]

(***************************************************************************)
(* Bios and Interconnect.  A value computed once and used several times   *)
(* is handed to a helper operator as a parameter.                         *)
(***************************************************************************)
\* self.data[i], or -1 when i is not an index of the image (the bytes of the
\* image after the modelled leading ones are 0)
DataAt(i) ==
    IF ~Lt32(i, BiosLen) THEN -1
    ELSE IF Hi(i) = 0 /\ Lo(i) < Len(bios) THEN bios[Lo(i) + 1]
    ELSE 0

\* a word assembly that takes the first byte as the most significant
BigEndian(msb, next_sb, next_next_sb, lsb) ==
    IF -1 \in {msb, next_sb, next_next_sb, lsb}
    THEN [kind |-> "panic", err |-> "index out of bounds", val |-> W(0, 0)]
    ELSE [kind |-> "Ok", err |-> "",
          val |-> Or32(Or32(Or32(Shl32(W(0, msb), 24), Shl32(W(0, next_sb), 16)),
                            Shl32(W(0, next_next_sb), 8)),
                       W(0, lsb))]

\* lsb << 24 | next_next_sb << 16 | next_sb << 8 | msb
LittleEndian(msb, next_sb, next_next_sb, lsb) ==
    IF -1 \in {msb, next_sb, next_next_sb, lsb}
    THEN [kind |-> "panic", err |-> "index out of bounds", val |-> W(0, 0)]
    ELSE [kind |-> "Ok", err |-> "",
          val |-> Or32(Or32(Or32(Shl32(W(0, lsb), 24), Shl32(W(0, next_next_sb), 16)),
                            Shl32(W(0, next_sb), 8)),
                       W(0, msb))]

\* Bios::load32
Bios_load32(offset) ==
    LittleEndian(DataAt(offset),
                 DataAt(wrapping_add(offset, W(0, 1))),
                 DataAt(wrapping_add(offset, W(0, 2))),
                 DataAt(wrapping_add(offset, W(0, 3))))

\* the range test of Interconnect::load32
InBiosRange(addr) ==
    Ge32(addr, BIOS_ADDR_RANGE.starting_addr) \/ Lt32(addr, BIOS_ADDR_RANGE.last_addr)

\* return Ok(self.bios.load32(offset))
BiosRead(offset, r) ==
    [kind |-> r.kind, err |-> r.err, val |-> r.val,
     dev |-> <<[op |-> "bios.load32", addr |-> offset, val |-> r.val]>>]

\* let offset = addr - BIOS_ADDR_RANGE.starting_addr
BiosOffset(addr) == wrapping_sub(addr, BIOS_ADDR_RANGE.starting_addr)

\* Interconnect::load32; dev: the device reads made
load32(addr) ==
    IF Mod4(addr) # 0
    THEN [kind |-> "Err", err |-> "not aligned", val |-> W(0, 0), dev |-> <<>>]
    ELSE IF InBiosRange(addr)
    THEN IF Lt32(addr, BIOS_ADDR_RANGE.starting_addr) /\ overflow_checks
         THEN [kind |-> "panic", err |-> "attempt to subtract with overflow",
               val |-> W(0, 0), dev |-> <<>>]
         ELSE BiosRead(BiosOffset(addr), Bios_load32(BiosOffset(addr)))
    ELSE [kind |-> "Err", err |-> "not in range for any peripheral",
          val |-> W(0, 0), dev |-> <<>>]

InRange(addr, range) == Ge32(addr, range.starting_addr) /\ Lt32(addr, range.last_addr)

\* an unmapped store acknowledged and discarded
store32_unmapped_ignored(addr, val) ==
    [kind |-> "Ok", err |-> "", dev |-> "none"]

\* the else branch of Interconnect::store32: todo!()
store32_unmapped(addr, val) ==
    [kind |-> "panic", err |-> "not yet implemented", dev |-> "none"]

\* a MEM_CONTROL branch that accepts every value
store32_mem_control_any(offset, val) ==
    [kind |-> "Ok", err |-> "", dev |-> "MEM_CONTROL"]

\* the MEM_CONTROL branch of Interconnect::store32
store32_mem_control(offset, val) ==
    IF offset = W(0, 0) /\ val # W(\H1f00, \H0000)
    THEN [kind |-> "Err", err |-> "bad expansion 1 base address", dev |-> "MEM_CONTROL"]
    ELSE IF offset = W(0, 4) /\ val # W(\H1f80, \H2000)
    THEN [kind |-> "Err", err |-> "bad expansion 2 base address", dev |-> "MEM_CONTROL"]
    ELSE [kind |-> "Ok", err |-> "", dev |-> "MEM_CONTROL"]

\* Interconnect::store32; dev: the register block that took the write
store32(addr, val) ==
    IF Mod4(addr) # 0
    THEN [kind |-> "Err", err |-> "not aligned", dev |-> "none"]
    ELSE IF InRange(addr, MEM_CONTROL_ADDR_RANGE)
    THEN store32_mem_control(wrapping_sub(addr, MEM_CONTROL_ADDR_RANGE.starting_addr), val)
    ELSE IF InRange(addr, RAM_SIZE_RANGE)
    THEN [kind |-> "Ok", err |-> "", dev |-> "RAM_SIZE"]
    ELSE IF InRange(addr, CACHE_CONTROL_RANGE)
    THEN [kind |-> "Ok", err |-> "", dev |-> "CACHE_CONTROL"]
    ELSE store32_unmapped(addr, val)

(***************************************************************************)
(* Cpu: registers and instructions.  An operation takes the Cpu c and     *)
(* yields [cpu, bus, panic]: the Cpu after it, the bus accesses it made   *)
(* and the panic that ended it ("" when it returned).                     *)
(***************************************************************************)
\* Cpu::get_register
get_register(c, register_index) == c.registers[register_index]

\* set_register without the reset of $zero
set_register_nozero(c, reg_idx, val) ==
    [c EXCEPT !.registers = [c.registers EXCEPT ![reg_idx] = val]]

\* a set_register that decodes only the low 4 bits of the index
set_register_low4(c, reg_idx, val) ==
    [c EXCEPT !.registers = [[c.registers EXCEPT ![reg_idx % 16] = val] EXCEPT ![0] = W(0, 0)]]

\* Cpu::set_register
set_register(c, reg_idx, val) ==
    [c EXCEPT !.registers = [[c.registers EXCEPT ![reg_idx] = val] EXCEPT ![0] = W(0, 0)]]

Done(c) == [cpu |-> c, bus |-> <<>>, panic |-> ""]

\* an op_lui that ORs the shifted immediate into get(rs)
op_lui_or_rs(c, instr) ==
    Done(set_register(c, gpr_rt(instr),
                      Or32(get_register(c, gpr_rs(instr)), Shl32(immediate(instr), 16))))

\* Cpu::op_lui
op_lui(c, instr) ==
    Done(set_register(c, gpr_rt(instr), Shl32(immediate(instr), 16)))

\* Cpu::op_or
op_or(c, instr) ==
    Done(set_register(c, gpr_rd(instr),
                      Or32(get_register(c, gpr_rs(instr)), get_register(c, gpr_rt(instr)))))

\* an op_ori whose source register is rt
op_ori_rt(c, instr) ==
    Done(set_register(c, gpr_rt(instr),
                      Or32(get_register(c, gpr_rt(instr)), immediate(instr))))

\* Cpu::op_ori
op_ori(c, instr) ==
    Done(set_register(c, gpr_rt(instr),
                      Or32(get_register(c, gpr_rs(instr)), immediate(instr))))

\* the unwrap of Cpu::op_sw, r being what store32(addr, val) returned
Stored(c, addr, val, r) ==
    [cpu   |-> c,
     bus   |-> <<[op |-> "store32", addr |-> addr, val |-> val, res |-> r]>>,
     panic |-> CASE r.kind = "Ok"    -> ""
                 [] r.kind = "Err"   -> "unwrap on Err"
                 [] r.kind = "panic" -> r.err]

\* self.store32(addr, val).unwrap()
Store(c, addr, val) == Stored(c, addr, val, store32(addr, val))

\* an op_sw that adds the offset without sign extension
op_sw_unsigned_offset(c, instr) ==
    Store(c,
          wrapping_add(get_register(c, base(instr)), immediate(instr)),
          get_register(c, gpr_rt(instr)))

\* Cpu::op_sw
op_sw(c, instr) ==
    Store(c,
          wrapping_add(get_register(c, base(instr)), offset_sign_extended(instr)),
          get_register(c, gpr_rt(instr)))

\* an op_sll that shifts get(rs)
op_sll_rs(c, instr) ==
    Done(set_register(c, gpr_rd(instr), Shl32(get_register(c, gpr_rs(instr)), sa(instr))))

\* Cpu::op_sll
op_sll(c, instr) ==
    Done(set_register(c, gpr_rd(instr), Shl32(get_register(c, gpr_rt(instr)), sa(instr))))

\* an op_addiu that adds the immediate without sign extension
op_addiu_zero_extended(c, instr) ==
    Done(set_register(c, gpr_rt(instr),
                      wrapping_add(get_register(c, gpr_rs(instr)), immediate(instr))))

\* Cpu::op_addiu
op_addiu(c, instr) ==
    Done(set_register(c, gpr_rt(instr),
                      wrapping_add(get_register(c, gpr_rs(instr)),
                                   immediate_sign_extended(instr))))

\* op_jump without the shift of the target index
op_jump_noshift(c, instr) ==
    Done([c EXCEPT !.pc = Or32(And32(W(\HF000, \H0000), c.pc), instr_index(instr))])

\* op_jump keeping the top 8 bits of pc
op_jump_mask(c, instr) ==
    Done([c EXCEPT !.pc = Or32(And32(W(\HFF00, \H0000), c.pc),
                               Shl32(instr_index(instr), 2))])

\* Cpu::op_jump
op_jump(c, instr) ==
    Done([c EXCEPT !.pc = Or32(And32(W(\HF000, \H0000), c.pc),
                               Shl32(instr_index(instr), 2))])

\* InstructionForDebugger, without the evaluated text
Entry(raw, op, human) == [raw |-> raw, op |-> op, human |-> human]

\* the history push of Cpu::execute_instr
Push(c, raw, op, human) ==
    [c EXCEPT !.instruction_history = Append(@, Entry(raw, op, human))]

OkResult == [kind |-> "Ok", word |-> W(0, 0)]

ErrResult(kind, word) == [kind |-> kind, word |-> word]

\* an operation's outcome o as the outcome of Cpu::execute_instr:
\* [cpu, bus, panic, ret], ret the Result returned when there is no panic
Executed(o, raw, op, human) ==
    [cpu   |-> IF o.panic = "" THEN Push(o.cpu, raw, op, human) ELSE o.cpu,
     bus   |-> o.bus,
     panic |-> o.panic,
     ret   |-> OkResult]

\* an unknown word taken as a no-op that succeeds
Failed_silent(c, kind, raw) ==
    [cpu |-> c, bus |-> <<>>, panic |-> "", ret |-> OkResult]

Failed(c, kind, raw) ==
    [cpu |-> c, bus |-> <<>>, panic |-> "", ret |-> ErrResult(kind, raw)]

\* a secondary dispatch that shifts before it finds the opcode unknown
SpecialDispatch_late_fault(c, instr_, sec) ==
    CASE sec = "ShiftLeftLogical" ->
            Executed(op_sll(c, instr_), instr_, "SLL", "rd = get(rt) << sa")
      [] sec = "Or" ->
            Executed(op_or(c, instr_), instr_, "OR", "rd = get(rs) | get(rt)")
      [] OTHER -> Failed(op_sll(c, instr_).cpu, "UnknownSecondaryOpInstruction", instr_)

\* the match of Cpu::execute_special_op_instr, with the None branch of its caller
SpecialDispatch(c, instr_, sec) ==
    CASE sec = "ShiftLeftLogical" ->
            Executed(op_sll(c, instr_), instr_, "SLL", "rd = get(rt) << sa")
      [] sec = "Or" ->
            Executed(op_or(c, instr_), instr_, "OR", "rd = get(rs) | get(rt)")
      [] OTHER -> Failed(c, "UnknownSecondaryOpInstruction", instr_)

\* Cpu::execute_special_op_instr
execute_special_op_instr(c, instr_) == SpecialDispatch(c, instr_, secondary_opcode(instr_))

\* the match of Cpu::execute_instr
Dispatch(c, instr_, op) ==
    CASE op = "Special" -> execute_special_op_instr(c, instr_)
      [] op = "LoadUpperImmediate" ->
            Executed(op_lui(c, instr_), instr_, "LUI", "rt = imm << 16")
      [] op = "OrImmediate" ->
            Executed(op_ori(c, instr_), instr_, "ORI", "rt = get(rs) | immediate")
      [] op = "StoreWord" ->
            Executed(op_sw(c, instr_), instr_, "SW", "memory[get(base)+offset] = get(rt)")
      [] op = "AddImmediateUnsignedWord" ->
            Executed(op_addiu(c, instr_), instr_, "ADDIU", "rt = get(rs) + imm")
      [] op = "Jump" ->
            Executed(op_jump(c, instr_), instr_, "J", "pc = 4MSB(pc) | (instr_index << 2)")
      [] OTHER -> Failed(c, "UnknownInstruction", instr_)

\* Cpu::execute_instr
execute_instr(c, instr_) == Dispatch(c, instr_, sop(instr_))

\* the .expect(..) of Cpu::run_single_cycle, r being what load32(pc) returned
Fetched(addr, r) ==
    [val   |-> r.val,
     bus   |-> <<[op |-> "load32", addr |-> addr, val |-> r.val, res |-> r]>>,
     panic |-> CASE r.kind = "Ok"    -> ""
                 [] r.kind = "Err"   -> "Unable to load next instruction"
                 [] r.kind = "panic" -> r.err]

\* self.load32(pc).expect("Unable to load next instruction")
Fetch(c) == Fetched(c.pc, load32(c.pc))

\* the outcome of Cpu::run_single_cycle after fetch f and execution e of instr
Cycled(f, e, instr) ==
    [cpu |-> e.cpu, bus |-> f.bus \o e.bus, panic |-> e.panic,
     ret |-> e.ret, fetched |-> TRUE, instr |-> instr]

\* run_single_cycle executing the word it has just fetched
Cycle_no_delay(c, instr, f) ==
    IF f.panic # ""
    THEN [cpu |-> c, bus |-> f.bus, panic |-> f.panic, ret |-> OkResult,
          fetched |-> FALSE, instr |-> instr]
    ELSE Cycled(f,
                execute_instr([c EXCEPT !.next_instruction = f.val,
                                        !.pc = wrapping_add(c.pc, W(0, 4))],
                              f.val),
                f.val)

\* run_single_cycle that does not queue the word it has fetched
Cycle_no_queue(c, instr, f) ==
    IF f.panic # ""
    THEN [cpu |-> c, bus |-> f.bus, panic |-> f.panic, ret |-> OkResult,
          fetched |-> FALSE, instr |-> instr]
    ELSE Cycled(f,
                execute_instr([c EXCEPT !.pc = wrapping_add(c.pc, W(0, 4))], instr),
                instr)

\* the outcome x of a cycle begun with Cpu c, a fault undoing the fetch
Retried(c, x) == IF x.panic = "" /\ x.ret.kind # "Ok" THEN [x EXCEPT !.cpu = c] ELSE x

\* run_single_cycle that keeps a faulting word queued at the same pc
Cycle_retry(c, instr, f) ==
    IF f.panic # ""
    THEN [cpu |-> c, bus |-> f.bus, panic |-> f.panic, ret |-> OkResult,
          fetched |-> FALSE, instr |-> instr]
    ELSE Retried(c, Cycled(f,
                           execute_instr([c EXCEPT !.next_instruction = f.val,
                                                   !.pc = wrapping_add(c.pc, W(0, 4))],
                                         instr),
                           instr))

\* Cpu::run_single_cycle after its fetch f
Cycle(c, instr, f) ==
    IF f.panic # ""
    THEN [cpu |-> c, bus |-> f.bus, panic |-> f.panic, ret |-> OkResult,
          fetched |-> FALSE, instr |-> instr]
    ELSE Cycled(f,
                execute_instr([c EXCEPT !.next_instruction = f.val,
                                        !.pc = wrapping_add(c.pc, W(0, 4))],
                              instr),
                instr)

\* Cpu::run_single_cycle: [cpu, bus, panic, ret, fetched, instr]
run_single_cycle(c) == Cycle(c, c.next_instruction, Fetch(c))

(***************************************************************************)
(* The standalone binary (src/psemu/src/main.rs): its own Cpu, decoder and *)
(* Interconnect.  Its Cpu is [pc, registers].                              *)
(***************************************************************************)
standalone_MEM_CONTROL_ADDR_RANGE ==
    [starting_addr |-> W(\H1f80, \H1000),
     last_addr     |-> wrapping_add(W(\H1f80, \H1004), W(0, 32))]

\* enum Opcode
standalone_Opcode(op) ==
    CASE op = 15 -> "LoadUpperImmediate"
      [] op = 13 -> "OrImmediate"
      [] op = 43 -> "StoreWord"
      [] OTHER   -> "None"

\* 31..26
standalone_opcode(instr) == standalone_Opcode(Num(Shr32(instr, 26)))

\* 25..21
standalone_base(instr) == Num(And32(W(0, 31), Shr32(instr, 21)))

\* 20..16
standalone_gpr_rt(instr) == Num(And32(W(0, 31), Shr32(instr, 16)))

\* 15..0
standalone_immediate(instr) == And32(W(0, \HFFFF), instr)

\* let val = self.immediate() as i16; val as u32
standalone_offset__sign_extended(instr) == SignExtend16(standalone_immediate(instr))

\* the range test of Interconnect::store32
standalone_InMemControl(addr) ==
    Ge32(addr, standalone_MEM_CONTROL_ADDR_RANGE.starting_addr)
        \/ Lt32(addr, standalone_MEM_CONTROL_ADDR_RANGE.last_addr)

\* the branch of Interconnect::store32 taken by an address in range
standalone_store32_mem_control(offset, val) ==
    IF offset = W(0, 0) /\ val # W(\H1f00, \H0000)
    THEN [kind |-> "Err", err |-> "bad expansion 1 base address", dev |-> "MEM_CONTROL"]
    ELSE IF offset = W(0, 4) /\ val # W(\H1f80, \H2000)
    THEN [kind |-> "Err", err |-> "bad expansion 2 base address", dev |-> "MEM_CONTROL"]
    ELSE [kind |-> "Ok", err |-> "", dev |-> "MEM_CONTROL"]

\* Interconnect::store32
standalone_store32(addr, val) ==
    IF Mod4(addr) # 0
    THEN [kind |-> "Err", err |-> "not aligned", dev |-> "none"]
    ELSE IF standalone_InMemControl(addr)
    THEN IF Lt32(addr, standalone_MEM_CONTROL_ADDR_RANGE.starting_addr) /\ overflow_checks
         THEN [kind |-> "panic", err |-> "attempt to subtract with overflow", dev |-> "none"]
         ELSE standalone_store32_mem_control(
                  wrapping_sub(addr, standalone_MEM_CONTROL_ADDR_RANGE.starting_addr), val)
    ELSE [kind |-> "panic", err |-> "not yet implemented", dev |-> "none"]

\* Cpu::new
standalone_new ==
    [pc        |-> W(\Hbfc0, \H0000),
     registers |-> [i \in 0..31 |-> IF i = 0 THEN W(0, 0) ELSE RegisterSentinel]]

\* Cpu::get_register
standalone_get_register(c, register_index) == c.registers[register_index]

\* Cpu::set_register
standalone_set_register(c, reg_idx, val) ==
    [c EXCEPT !.registers = [[c.registers EXCEPT ![reg_idx] = val] EXCEPT ![0] = W(0, 0)]]

\* Cpu::op_lui
standalone_op_lui(c, instr) ==
    Done(standalone_set_register(c, standalone_gpr_rt(instr),
                                 Shl32(standalone_immediate(instr), 16)))

\* Cpu::op_ori: let res = self.get_register(rt) | imm
standalone_op_ori(c, instr) ==
    Done(standalone_set_register(c, standalone_gpr_rt(instr),
                                 Or32(standalone_get_register(c, standalone_gpr_rt(instr)),
                                      standalone_immediate(instr))))

\* Cpu::op_sw
standalone_op_sw(c, instr) ==
    Stored(c,
           wrapping_add(standalone_get_register(c, standalone_base(instr)),
                        standalone_offset__sign_extended(instr)),
           standalone_get_register(c, standalone_gpr_rt(instr)),
           standalone_store32(wrapping_add(standalone_get_register(c, standalone_base(instr)),
                                           standalone_offset__sign_extended(instr)),
                              standalone_get_register(c, standalone_gpr_rt(instr))))

\* the match of Cpu::execute_instr
standalone_Dispatch(c, instr_, op) ==
    CASE op = "LoadUpperImmediate" -> standalone_op_lui(c, instr_)
      [] op = "OrImmediate"        -> standalone_op_ori(c, instr_)
      [] op = "StoreWord"          -> standalone_op_sw(c, instr_)
      [] OTHER -> [cpu |-> c, bus |-> <<>>,
                   panic |-> "If I could, I'd handle this instruction"]

\* Cpu::execute_instr: [cpu, bus, panic]
standalone_execute_instr(c, instr_) ==
    standalone_Dispatch(c, instr_, standalone_opcode(instr_))

(***************************************************************************)
(* Inputs                                                                  *)
(***************************************************************************)
\* instruction words
NOP          == W(\H0000, \H0000)   \* SLL $0, $0, 0
SLL_0_1_4    == W(\H0001, \H0100)   \* SLL $0, $1, 4
SLL_2_1_31   == W(\H0001, \H17C0)   \* SLL $2, $1, 31
OR_0_1_1     == W(\H0021, \H0025)   \* OR $0, $1, $1
OR_31_31_31  == W(\H03FF, \HF825)   \* OR $31, $31, $31
LUI_0        == W(\H3C00, \H1234)   \* LUI $0, 0x1234
LUI_1        == W(\H3C01, \H1F80)   \* LUI $1, 0x1f80
LUI_2        == W(\H3C02, \H1F00)   \* LUI $2, 0x1f00
ORI_2_1      == W(\H3422, \H00FF)   \* ORI $2, $1, 0x00ff
ADDIU_0_1    == W(\H2420, \H0001)   \* ADDIU $0, $1, 1
ADDIU_1_1    == W(\H2421, \HFFFC)   \* ADDIU $1, $1, -4
J_BIOS       == W(\H0BF0, \H0000)   \* J 0x3f00000: to 0xbfc00000
J_BIOS_2     == W(\H0BF0, \H0002)   \* J 0x3f00002: to 0xbfc00008
J_LOW        == W(\H0800, \H0000)   \* J 0: to 0xb0000000
J_TOP        == W(\H0BFF, \HFFFF)   \* J 0x3ffffff: to 0xbffffffc
SW_1_0       == W(\HAC01, \H0000)   \* SW $1, 0($0): address 0
SW_1_1       == W(\HAC21, \H0000)   \* SW $1, 0($1)
SW_2_MEMCTL  == W(\HAC22, \H1000)   \* SW $2, 0x1000($1)
SW_2_RAMSIZE == W(\HAC22, \H1060)   \* SW $2, 0x1060($1)
SW_2_PAST    == W(\HAC22, \H1024)   \* SW $2, 0x1024($1)
UNKNOWN      == W(\HFFFF, \HFFFF)   \* primary opcode 0x3f
UNKNOWN_SOP  == W(\H0000, \H003F)   \* secondary opcode 0x3f
UNKNOWN_SOP_1 == W(\H0001, \H093F)  \* secondary opcode 0x3f, rt = 1, rd = 1, sa = 4

\* the words a boot image is made of
RomWords == {NOP, LUI_1, J_BIOS_2, J_LOW, J_TOP, SW_1_0, SW_2_RAMSIZE, UNKNOWN,
             UNKNOWN_SOP}

\* the words handed to execute_instr by a caller
ExecWords == {SLL_0_1_4, SLL_2_1_31, OR_0_1_1, LUI_0, LUI_1, ORI_2_1, ADDIU_0_1,
              J_BIOS, J_TOP, SW_1_0, SW_1_1, SW_2_RAMSIZE, SW_2_PAST, UNKNOWN,
              UNKNOWN_SOP, UNKNOWN_SOP_1, OR_31_31_31}

\* the register indices and values handed to set_register by a caller
RegIndices == {0, 1, 31}
RegValues  == {W(\HFFFF, \HFFFF), W(\H1F80, \H0000)}

\* the addresses and values handed to load32 and store32 by a caller
Addresses == {W(\H0000, \H0000), W(\H0000, \H0001), W(\Hbfc0, \H0000), W(\Hbfc0, \H0002),
              W(\Hbfc7, \HFFFC), W(\Hbfc8, \H0000), W(\HFFFF, \HFFFC),
              W(\H1f80, \H1000), W(\H1f80, \H1004), W(\H1f80, \H1008), W(\H1f80, \H1020),
              W(\H1f80, \H1024), W(\H1f80, \H1060), W(\H1f80, \H1064),
              W(\Hfffe, \H0130), W(\Hfffe, \H0134), W(\Hfffe, \H0131),
              W(\H1f80, \H1001), W(\H1f80, \H1062)}
StoreValues == {W(\H1f00, \H0000), W(\H1f80, \H2000), W(0, 0), W(\H1f00, \H0001)}

\* instruction words of the instruction-level checks
UNKNOWN_REGIMM == W(\H0400, \H0000)   \* primary opcode 0x01
UNKNOWN_JAL    == W(\H0C00, \H0000)   \* primary opcode 0x03
UNKNOWN_LW     == W(\H8C22, \H0000)   \* primary opcode 0x23, rs = 1, rt = 2
UNKNOWN_SRL    == W(\H0001, \H0902)   \* secondary opcode 0x02, rt = 1, rd = 1, sa = 4
UNKNOWN_AND    == W(\H0023, \H0824)   \* secondary opcode 0x24, rs = 1, rt = 3, rd = 1
ADDIU_4_3_1    == W(\H2464, \H0001)   \* ADDIU $4, $3, 1
ADDIU_3_3_NEG  == W(\H2463, \HFFFC)   \* ADDIU $3, $3, -4
ADDIU_1_3_MIN  == W(\H2461, \H8000)   \* ADDIU $1, $3, -32768
ADDIU_3_0_MAX  == W(\H2403, \H7FFF)   \* ADDIU $3, $0, 32767
LUI_1_1234     == W(\H3C01, \H1234)   \* LUI $1, 0x1234
LUI_1_RS       == W(\H3C61, \H1234)   \* LUI $1, 0x1234 with rs = 3
LUI_31_FFFF    == W(\H3FFF, \HFFFF)   \* LUI $31, 0xffff with rs = 31
LUI_3_0        == W(\H3C03, \H0000)   \* LUI $3, 0
ORI_1_1_FFFF   == W(\H3421, \HFFFF)   \* ORI $1, $1, 0xffff
ORI_0_3        == W(\H3460, \H00FF)   \* ORI $0, $3, 0x00ff
SLL_3_1_16     == W(\H0001, \H1C00)   \* SLL $3, $1, 16
SLL_1_3_1      == W(\H0003, \H0840)   \* SLL $1, $3, 1

\* the words handed to execute_instr in the instruction-level checks
AnyWords == {UNKNOWN, UNKNOWN_REGIMM, UNKNOWN_JAL, UNKNOWN_LW,
             UNKNOWN_SOP, UNKNOWN_SOP_1, UNKNOWN_SRL, UNKNOWN_AND,
             ADDIU_0_1, ADDIU_4_3_1, ADDIU_3_3_NEG, ADDIU_1_3_MIN, ADDIU_3_0_MAX,
             LUI_0, LUI_1_1234, LUI_1_RS, LUI_31_FFFF, LUI_3_0,
             ORI_2_1, ORI_1_1_FFFF, ORI_0_3,
             SLL_2_1_31, SLL_3_1_16, SLL_1_3_1, NOP}

\* the register indices and values handed to set_register in these checks
AnyIndices == {0, 1, 3, 31}
AnyValues  == {W(\HFFFF, \HFFFF), W(\H7FFF, \HFFFF), W(0, 0), W(0, \HFF00)}

\* the number of calls made in the instruction-level checks
MaxOps == 2

\* the four bytes of a word in the image, least significant first
LeBytes(w) == <<Lo(w) % 256, Lo(w) \div 256, Hi(w) % 256, Hi(w) \div 256>>

RECURSIVE Image(_)
Image(words) == IF words = <<>> THEN <<>> ELSE LeBytes(Head(words)) \o Image(Tail(words))

\* the number of leading words of the boot image that vary
ProgLen == 3

\* the number of calls a caller makes
MaxCalls == 3

\* the number of steps the free-running driver is followed for
MaxSteps == 6

(***************************************************************************)
(* The Cpu under any caller of its public methods                          *)
(***************************************************************************)
\* a Cpu::new that fills all 32 registers with the sentinel
New_all_sentinel(images) ==
    /\ pc = PROGRAM_COUNTER_RESET_VALUE
    /\ next_instruction = W(0, 0)
    /\ registers = [i \in 0..31 |-> RegisterSentinel]
    /\ instruction_history = <<>>
    /\ bios \in images
    /\ overflow_checks \in BOOLEAN
    /\ ret = [call |-> "new", res |-> OkResult]
    /\ panicked = ""
    /\ bus_log = <<>>
    /\ step_log = <<>>
    /\ ncalls = 0

\* Cpu::new, the boot image being one of images
New(images) ==
    /\ pc = PROGRAM_COUNTER_RESET_VALUE
    /\ next_instruction = W(0, 0)
    /\ registers = [i \in 0..31 |-> IF i = 0 THEN W(0, 0) ELSE RegisterSentinel]
    /\ instruction_history = <<>>
    /\ bios \in images
    /\ overflow_checks \in BOOLEAN
    /\ ret = [call |-> "new", res |-> OkResult]
    /\ panicked = ""
    /\ bus_log = <<>>
    /\ step_log = <<>>
    /\ ncalls = 0

\* the Cpu is used without a Debugger
NoDebugger == [auto |-> FALSE, at |-> "none"]

\* the standalone binary is not run
NoStandalone == [cpu |-> [pc |-> W(0, 0), registers |-> <<>>], bus |-> <<>>, panic |-> ""]

\* no ChannelLogger is installed
NoLogger ==
    /\ channel = <<>>
    /\ logs = <<>>
    /\ logs_lock = "none"
    /\ rx_task = [at |-> "none", msg |-> ""]
    /\ written = <<>>

Init ==
    /\ New({Image(<<J_BIOS_2, LUI_1, SW_2_RAMSIZE>>), Image(<<UNKNOWN, J_LOW, NOP>>)})
    /\ debugger = NoDebugger
    /\ standalone = NoStandalone
    /\ NoLogger

\* what a call with outcome o returned: nothing when it panicked
Returned(o) == IF o.panic = "" THEN o.ret ELSE [kind |-> "none", word |-> W(0, 0)]

\* the Cpu after a call with outcome o
Becomes(o) ==
    /\ pc' = o.cpu.pc
    /\ next_instruction' = o.cpu.next_instruction
    /\ registers' = o.cpu.registers
    /\ instruction_history' = o.cpu.instruction_history
    /\ bus_log' = o.bus
    /\ panicked' = o.panic
    /\ UNCHANGED <<bios, overflow_checks>>

\* a caller calls cpu.run_single_cycle()
Step ==
    \E o \in {run_single_cycle(Self)} :
        /\ Becomes(o)
        /\ ret' = [call |-> "run_single_cycle", res |-> Returned(o)]
        /\ step_log' = Append(step_log,
                              [pc |-> pc, instr |-> o.instr, fetched |-> o.fetched,
                               next |-> o.cpu.next_instruction, ret |-> Returned(o),
                               panic |-> o.panic, pc_after |-> o.cpu.pc])
        /\ ncalls' = ncalls + 1

RunSingleCycle ==
    /\ panicked = ""
    /\ ncalls < MaxCalls
    /\ Step
    /\ UNCHANGED <<debugger, standalone, logVars>>

\* a caller calls cpu.execute_instr(w), w one of words
ExecuteInstrWith(words, bound) ==
    /\ panicked = ""
    /\ ncalls < bound
    /\ \E w \in words :
       \E o \in {execute_instr(Self, w)} :
          /\ Becomes(o)
          /\ ret' = [call |-> "execute_instr", res |-> Returned(o), word |-> w]
    /\ ncalls' = ncalls + 1
    /\ UNCHANGED <<step_log, debugger, standalone, logVars>>

ExecuteInstr == ExecuteInstrWith(ExecWords, MaxCalls)

\* a caller calls cpu.set_register(RegisterIndex(i), v)
SetRegisterWith(indices, values, bound) ==
    /\ panicked = ""
    /\ ncalls < bound
    /\ \E i \in indices, v \in values :
          /\ Becomes(Done(set_register(Self, i, v)))
          /\ ret' = [call |-> "set_register", res |-> [kind |-> "Ok", idx |-> i, val |-> v]]
    /\ ncalls' = ncalls + 1
    /\ UNCHANGED <<step_log, debugger, standalone, logVars>>

SetRegister == SetRegisterWith(RegIndices, RegValues, MaxCalls)

\* a caller calls cpu.load32(addr)
Load32 ==
    /\ panicked = ""
    /\ ncalls < MaxCalls
    /\ \E addr \in Addresses :
       \E r \in {load32(addr)} :
          /\ ret' = [call |-> "load32", res |-> r, addr |-> addr]
          /\ bus_log' = r.dev
          /\ panicked' = IF r.kind = "panic" THEN r.err ELSE ""
    /\ ncalls' = ncalls + 1
    /\ UNCHANGED <<cpuVars, bios, overflow_checks, step_log, debugger, standalone, logVars>>

\* a store32 whose accepted writes land in the first byte of the boot image
Store32_rom_write ==
    /\ panicked = ""
    /\ ncalls < MaxCalls
    /\ \E addr \in Addresses, val \in StoreValues :
       \E r \in {store32(addr, val)} :
          /\ ret' = [call |-> "store32", res |-> r, addr |-> addr, val |-> val]
          /\ bus_log' = <<[op |-> "store32", addr |-> addr, val |-> val, res |-> r]>>
          /\ panicked' = IF r.kind = "panic" THEN r.err ELSE ""
          /\ bios' = IF r.kind = "Ok" THEN [bios EXCEPT ![1] = Lo(val) % 256] ELSE bios
    /\ ncalls' = ncalls + 1
    /\ UNCHANGED <<cpuVars, overflow_checks, step_log, debugger, standalone, logVars>>

\* a caller calls cpu.store32(addr, val)
Store32 ==
    /\ panicked = ""
    /\ ncalls < MaxCalls
    /\ \E addr \in Addresses, val \in StoreValues :
       \E r \in {store32(addr, val)} :
          /\ ret' = [call |-> "store32", res |-> r, addr |-> addr, val |-> val]
          /\ bus_log' = <<[op |-> "store32", addr |-> addr, val |-> val, res |-> r]>>
          /\ panicked' = IF r.kind = "panic" THEN r.err ELSE ""
    /\ ncalls' = ncalls + 1
    /\ UNCHANGED <<cpuVars, bios, overflow_checks, step_log, debugger, standalone, logVars>>

Next == RunSingleCycle \/ ExecuteInstr \/ SetRegister

Spec == Init /\ [][Next]_vars

(***************************************************************************)
(* The bus under any caller of Cpu::load32 and Cpu::store32                *)
(***************************************************************************)
NextBus == Load32 \/ Store32

SpecBus == Init /\ [][NextBus]_vars

(***************************************************************************)
(* One instruction at a time: any caller of Cpu::execute_instr and         *)
(* Cpu::set_register                                                       *)
(***************************************************************************)
InitExec ==
    /\ New({Image(<<NOP>>)})
    /\ debugger = NoDebugger
    /\ standalone = NoStandalone
    /\ NoLogger

ExecuteAny == ExecuteInstrWith(AnyWords, MaxOps)

SetRegisterAny == SetRegisterWith(AnyIndices, AnyValues, MaxOps)

NextExec == ExecuteAny \/ SetRegisterAny

SpecExec == InitExec /\ [][NextExec]_vars

(***************************************************************************)
(* The free-running driver: main() of psemu-cli without --debug-mode       *)
(***************************************************************************)
RECURSIVE Programs(_)
Programs(n) ==
    IF n = 0 THEN {<<>>}
    ELSE {<<w>> \o p : w \in RomWords, p \in Programs(n - 1)}

InitCli ==
    /\ New({Image(p) : p \in Programs(ProgLen)})
    /\ debugger = NoDebugger
    /\ standalone = NoStandalone
    /\ NoLogger

\* loop { cpu.run_single_cycle(); }
CliLoop ==
    /\ panicked = ""
    /\ Len(step_log) < MaxSteps
    /\ Step
    /\ UNCHANGED <<debugger, standalone, logVars>>

SpecCli == InitCli /\ [][CliLoop]_vars

(***************************************************************************)
(* The debugger: Debugger::new and Debugger::run of psemudb                *)
(***************************************************************************)
\* the boot images the debugger is run on
DbgImages == {Image(<<UNKNOWN_SOP_1, LUI_1, NOP>>), Image(<<LUI_1, UNKNOWN, NOP>>),
              Image(<<NOP, SW_1_0, NOP>>), Image(<<NOP, NOP, NOP>>)}

\* the number of terminal events the debugger is followed for
MaxEvents == 4

\* enum TermEvent
TermEvent == {"Quit", "Next", "Resize"}

\* Debugger::new, auto being the --auto flag
InitDb ==
    /\ New(DbgImages)
    /\ debugger \in {[auto |-> a, at |-> "new", prev_registers |-> registers,
                       displays |-> 0, restores |-> 0, events |-> 0, last |-> "none"] :
                         a \in BOOLEAN}
    /\ standalone = NoStandalone
    /\ NoLogger

\* a loop that never leaves on a fault
AfterCycle_continue(kind) == "loop"

\* if res.is_err() { break; }: where run() goes on after a cycle that returned
AfterCycle(kind) == IF kind # "Ok" THEN "final loop" ELSE "loop"

\* setup_terminal() and the first display
DbgStart ==
    /\ debugger.at = "new"
    /\ debugger' = [debugger EXCEPT !.at = "loop", !.displays = @ + 1]
    /\ UNCHANGED <<cpuVars, bios, overflow_checks, ret, panicked, bus_log, step_log, ncalls, standalone, logVars>>

\* tmp = registers; res = run_single_cycle(); prev_registers = tmp; display;
\* break on Err.  ev is the event that asked for the cycle ("none" in auto mode)
DbgCycle(ev) ==
    /\ panicked = ""
    /\ Len(step_log) < MaxSteps
    /\ Step
    /\ debugger' = IF panicked' # ""
                   THEN [debugger EXCEPT !.at = "panicked", !.last = ev]
                   ELSE [debugger EXCEPT !.at = AfterCycle(ret'.res.kind),
                                         !.prev_registers = registers,
                                         !.displays = @ + 1,
                                         !.last = ev]
    /\ UNCHANGED <<standalone, logVars>>

\* the loop of auto mode
DbgAuto ==
    /\ debugger.at = "loop"
    /\ debugger.auto
    /\ DbgCycle("none")

\* the Debugger d after listen_to_events() returned ev
Listened(d, ev) == [d EXCEPT !.events = @ + 1, !.last = ev]

\* the loop of interactive mode: TermEvent::Next
DbgNext ==
    /\ debugger.at = "loop"
    /\ ~debugger.auto
    /\ debugger.events < MaxEvents
    /\ \E d \in {Listened(debugger, "Next")} :
          /\ panicked = ""
          /\ Len(step_log) < MaxSteps
          /\ Step
          /\ debugger' = IF panicked' # ""
                         THEN [d EXCEPT !.at = "panicked"]
                         ELSE [d EXCEPT !.at = AfterCycle(ret'.res.kind),
                                        !.prev_registers = registers,
                                        !.displays = @ + 1]
    /\ UNCHANGED <<standalone, logVars>>

\* the loop of interactive mode: TermEvent::Quit
DbgQuit ==
    /\ debugger.at = "loop"
    /\ ~debugger.auto
    /\ debugger.events < MaxEvents
    /\ debugger' = [Listened(debugger, "Quit") EXCEPT !.at = "final loop", !.restores = @ + 1]
    /\ UNCHANGED <<cpuVars, bios, overflow_checks, ret, panicked, bus_log, step_log, ncalls, standalone, logVars>>

\* the loop of interactive mode: TermEvent::Resize
DbgResize ==
    /\ debugger.at = "loop"
    /\ ~debugger.auto
    /\ debugger.events < MaxEvents
    /\ debugger' = [Listened(debugger, "Resize") EXCEPT !.displays = @ + 1]
    /\ UNCHANGED <<cpuVars, bios, overflow_checks, ret, panicked, bus_log, step_log, ncalls, standalone, logVars>>

\* the final loop: TermEvent::Quit, then std::process::exit(0)
DbgFinalQuit ==
    /\ debugger.at = "final loop"
    /\ debugger.events < MaxEvents
    /\ debugger' = [Listened(debugger, "Quit") EXCEPT !.at = "exited", !.restores = @ + 1]
    /\ UNCHANGED <<cpuVars, bios, overflow_checks, ret, panicked, bus_log, step_log, ncalls, standalone, logVars>>

\* the final loop: TermEvent::Resize
DbgFinalResize ==
    /\ debugger.at = "final loop"
    /\ debugger.events < MaxEvents
    /\ debugger' = [Listened(debugger, "Resize") EXCEPT !.displays = @ + 1]
    /\ UNCHANGED <<cpuVars, bios, overflow_checks, ret, panicked, bus_log, step_log, ncalls, standalone, logVars>>

\* the final loop: _ => ()
DbgFinalOther ==
    /\ debugger.at = "final loop"
    /\ debugger.events < MaxEvents
    /\ debugger' = Listened(debugger, "Next")
    /\ UNCHANGED <<cpuVars, bios, overflow_checks, ret, panicked, bus_log, step_log, ncalls, standalone, logVars>>

NextDb ==
    \/ DbgStart
    \/ DbgAuto
    \/ DbgNext
    \/ DbgQuit
    \/ DbgResize
    \/ DbgFinalQuit
    \/ DbgFinalResize
    \/ DbgFinalOther

SpecDb == InitDb /\ [][NextDb]_vars

(***************************************************************************)
(* The two Cpus side by side: each call is made on psemu-core's Cpu and on *)
(* the standalone binary's Cpu, started from the same register state       *)
(***************************************************************************)
\* the LUI, ORI and SW words handed to both
PairWords == {LUI_0, LUI_1, LUI_2, LUI_1_RS, LUI_31_FFFF,
              ORI_2_1, ORI_1_1_FFFF, ORI_0_3,
              SW_1_0, SW_1_1, SW_2_MEMCTL, SW_2_RAMSIZE, SW_2_PAST}

\* the standalone Cpu holding the register state of psemu-core's Cpu c
Started(c) == [pc |-> standalone_new.pc, registers |-> c.registers]

InitPair ==
    /\ New({Image(<<NOP>>)})
    /\ debugger = NoDebugger
    /\ standalone = Done(standalone_new)
    /\ NoLogger

\* cpu.execute_instr(w) on both
PairExecute ==
    /\ panicked = ""
    /\ ncalls < MaxOps
    /\ \E w \in PairWords :
       \E o \in {execute_instr(Self, w)} :
          /\ Becomes(o)
          /\ ret' = [call |-> "execute_instr", res |-> Returned(o), word |-> w]
          /\ standalone' = standalone_execute_instr(Started(Self), w)
    /\ ncalls' = ncalls + 1
    /\ UNCHANGED <<step_log, debugger, logVars>>

\* cpu.set_register(i, v) on both
PairSetRegister ==
    /\ panicked = ""
    /\ ncalls < MaxOps
    /\ \E i \in AnyIndices, v \in AnyValues \cup RegValues :
          /\ Becomes(Done(set_register(Self, i, v)))
          /\ ret' = [call |-> "set_register", res |-> [kind |-> "Ok", idx |-> i, val |-> v]]
          /\ standalone' = Done(standalone_set_register(Started(Self), i, v))
    /\ ncalls' = ncalls + 1
    /\ UNCHANGED <<step_log, debugger, logVars>>

NextPair == PairExecute \/ PairSetRegister

SpecPair == InitPair /\ [][NextPair]_vars

(***************************************************************************)
(* Debug mode of psemu-cli: the ChannelLogger, its receiver task, and the  *)
(* Debugger that steps the Cpu on the main thread and reads the log vector *)
(* each time it draws                                                      *)
(***************************************************************************)
\* the boot images debug mode is run on
LogImages == {Image(<<LUI_1, SW_2_RAMSIZE, SW_2_RAMSIZE, UNKNOWN>>),
              Image(<<LUI_1, LUI_2, SW_2_MEMCTL, SW_1_0>>),
              Image(<<UNKNOWN_SOP_1, NOP, NOP, NOP>>)}

\* the warn!(..) and info!(..) of Interconnect::store32, r being what it returned
StoreEvent(r) ==
    CASE r.kind = "Ok" /\ r.dev = "MEM_CONTROL" ->
            <<"WARN Unhandled write to MEM_CONTROL register">>
      [] r.kind = "Ok" /\ r.dev = "RAM_SIZE" ->
            <<"INFO Ignoring write to RAM_SIZE register">>
      [] r.kind = "Ok" /\ r.dev = "CACHE_CONTROL" ->
            <<"INFO Ignoring write to CACHE_CONTROL register">>
      [] OTHER -> <<>>

\* the events of the bus accesses of a call, in order
RECURSIVE BusEvents(_)
BusEvents(bus) ==
    IF bus = <<>> THEN <<>>
    ELSE (IF Head(bus).op = "store32" THEN StoreEvent(Head(bus).res) ELSE <<>>)
             \o BusEvents(Tail(bus))

\* the error!(..) of Cpu::execute_instr, res being what it returned
FaultEvent(res) ==
    CASE res.kind = "UnknownInstruction" -> <<"ERROR Unknown instruction">>
      [] res.kind = "UnknownSecondaryOpInstruction" ->
            <<"ERROR Unknown secondary-op instruction">>
      [] OTHER -> <<>>

\* a channel that hands over the newest message first
send_newest_first(ch, s) == <<s>> \o ch

\* self.tx.send(s) on the mpsc channel holding ch
send(ch, s) == Append(ch, s)

\* ChannelLogger::write, once for each event of msgs
RECURSIVE Write(_, _)
Write(ch, msgs) ==
    IF msgs = <<>> THEN ch ELSE Write(send(ch, Head(msgs)), Tail(msgs))

\* the main thread logs msgs through the subscriber set by main()
Logged(msgs) ==
    /\ channel' = Write(channel, msgs)
    /\ written' = written \o msgs

\* main() with --debug-mode: ChannelLogger::new, then Debugger::new
InitLog ==
    /\ New(LogImages)
    /\ debugger \in {[auto |-> a, at |-> "new", prev_registers |-> registers,
                       displays |-> 0, restores |-> 0, events |-> 0, last |-> "none",
                       then |-> "loop", shown |-> 0] :
                         a \in BOOLEAN}
    /\ standalone = NoStandalone
    /\ channel = <<>>
    /\ logs = <<>>
    /\ logs_lock = "none"
    /\ rx_task = [at |-> "recv", msg |-> ""]
    /\ written = <<>>

\* setup_terminal(), then the first display
LogStart ==
    /\ debugger.at = "new"
    /\ debugger' = [debugger EXCEPT !.at = "display", !.then = "loop"]
    /\ UNCHANGED <<cpuVars, bios, overflow_checks, ret, panicked, bus_log, step_log, ncalls,
                   standalone, logVars>>

\* get_logs_table: self.logs.lock()
LogDisplayLock ==
    /\ debugger.at = "display"
    /\ logs_lock = "none"
    /\ logs_lock' = "debugger"
    /\ debugger' = [debugger EXCEPT !.at = "drawing"]
    /\ UNCHANGED <<cpuVars, bios, overflow_checks, ret, panicked, bus_log, step_log, ncalls,
                   standalone, channel, logs, rx_task, written>>

\* get_logs_table: one row for each line of the vector, the guard dropped;
\* then terminal.draw
LogDisplayDraw ==
    /\ debugger.at = "drawing"
    /\ logs_lock' = "none"
    /\ debugger' = [debugger EXCEPT !.at = debugger.then, !.shown = Len(logs),
                                    !.displays = @ + 1]
    /\ UNCHANGED <<cpuVars, bios, overflow_checks, ret, panicked, bus_log, step_log, ncalls,
                   standalone, channel, logs, rx_task, written>>

\* where a panic on the main thread leaves the process: "aborted", it is
\* ended at once; "panicked", main() unwinds and the drop of the runtime
\* waits for the receiver task, which goes on
AfterPanic == {"aborted", "panicked"}

\* tmp = registers; res = run_single_cycle(); prev_registers = tmp; then the
\* display, and the break on Err; d is the Debugger when the cycle begins
LogCycle(d) ==
    /\ panicked = ""
    /\ Len(step_log) < MaxSteps
    /\ Step
    /\ Logged(BusEvents(bus_log') \o FaultEvent(ret'.res))
    /\ debugger' \in IF panicked' # ""
                      THEN {[d EXCEPT !.at = a] : a \in AfterPanic}
                      ELSE {[d EXCEPT !.at = "display",
                                      !.then = AfterCycle(ret'.res.kind),
                                      !.prev_registers = registers]}
    /\ UNCHANGED <<standalone, logs, logs_lock, rx_task>>

\* the loop of auto mode
LogAuto ==
    /\ debugger.at = "loop"
    /\ debugger.auto
    /\ LogCycle(debugger)

\* the loop of interactive mode: TermEvent::Next
LogNext ==
    /\ debugger.at = "loop"
    /\ ~debugger.auto
    /\ debugger.events < MaxEvents
    /\ LogCycle(Listened(debugger, "Next"))

\* the loop of interactive mode: TermEvent::Quit
LogQuit ==
    /\ debugger.at = "loop"
    /\ ~debugger.auto
    /\ debugger.events < MaxEvents
    /\ debugger' = [Listened(debugger, "Quit") EXCEPT !.at = "final loop", !.restores = @ + 1]
    /\ UNCHANGED <<cpuVars, bios, overflow_checks, ret, panicked, bus_log, step_log, ncalls,
                   standalone, logVars>>

\* the loop of interactive mode: TermEvent::Resize
LogResize ==
    /\ debugger.at = "loop"
    /\ ~debugger.auto
    /\ debugger.events < MaxEvents
    /\ debugger' = [Listened(debugger, "Resize") EXCEPT !.at = "display", !.then = "loop"]
    /\ UNCHANGED <<cpuVars, bios, overflow_checks, ret, panicked, bus_log, step_log, ncalls,
                   standalone, logVars>>

\* the final loop: TermEvent::Quit, then std::process::exit(0)
LogFinalQuit ==
    /\ debugger.at = "final loop"
    /\ debugger.events < MaxEvents
    /\ debugger' = [Listened(debugger, "Quit") EXCEPT !.at = "exited", !.restores = @ + 1]
    /\ UNCHANGED <<cpuVars, bios, overflow_checks, ret, panicked, bus_log, step_log, ncalls,
                   standalone, logVars>>

\* the final loop: TermEvent::Resize
LogFinalResize ==
    /\ debugger.at = "final loop"
    /\ debugger.events < MaxEvents
    /\ debugger' = [Listened(debugger, "Resize") EXCEPT !.at = "display",
                                                        !.then = "final loop"]
    /\ UNCHANGED <<cpuVars, bios, overflow_checks, ret, panicked, bus_log, step_log, ncalls,
                   standalone, logVars>>

\* the final loop: _ => ()
LogFinalOther ==
    /\ debugger.at = "final loop"
    /\ debugger.events < MaxEvents
    /\ debugger' = Listened(debugger, "Next")
    /\ UNCHANGED <<cpuVars, bios, overflow_checks, ret, panicked, bus_log, step_log, ncalls,
                   standalone, logVars>>

\* the process has ended: std::process::exit(0), or a panic that aborts
Ended == debugger.at \in {"exited", "aborted"}

\* the receiver task: Ok(msg) = rx.recv()
RxRecv ==
    /\ ~Ended
    /\ rx_task.at = "recv"
    /\ channel # <<>>
    /\ rx_task' = [at |-> "lock", msg |-> Head(channel)]
    /\ channel' = Tail(channel)
    /\ UNCHANGED <<cpuVars, bios, overflow_checks, ret, panicked, bus_log, step_log, ncalls,
                   debugger, standalone, logs, logs_lock, written>>

\* the receiver task: logs_clone.lock()
RxLock ==
    /\ ~Ended
    /\ rx_task.at = "lock"
    /\ logs_lock = "none"
    /\ logs_lock' = "receiver"
    /\ rx_task' = [rx_task EXCEPT !.at = "push"]
    /\ UNCHANGED <<cpuVars, bios, overflow_checks, ret, panicked, bus_log, step_log, ncalls,
                   debugger, standalone, channel, logs, written>>

\* the receiver task: logs.push(msg), the guard dropped
RxPush ==
    /\ ~Ended
    /\ rx_task.at = "push"
    /\ logs' = Append(logs, rx_task.msg)
    /\ logs_lock' = "none"
    /\ rx_task' = [at |-> "recv", msg |-> ""]
    /\ UNCHANGED <<cpuVars, bios, overflow_checks, ret, panicked, bus_log, step_log, ncalls,
                   debugger, standalone, channel, written>>

NextLog ==
    \/ LogStart
    \/ LogDisplayLock
    \/ LogDisplayDraw
    \/ LogAuto
    \/ LogNext
    \/ LogQuit
    \/ LogResize
    \/ LogFinalQuit
    \/ LogFinalResize
    \/ LogFinalOther
    \/ RxRecv
    \/ RxLock
    \/ RxPush

\* the receiver task runs on a worker thread of the runtime and the main
\* thread draws without waiting, so neither is held up for ever
SpecLog ==
    /\ InitLog
    /\ [][NextLog]_vars
    /\ WF_vars(RxRecv)
    /\ WF_vars(RxLock)
    /\ WF_vars(RxPush)
    /\ WF_vars(LogDisplayDraw)

(***************************************************************************)
(* Properties                                                              *)
(***************************************************************************)
\* the primary opcode of word w is J (0b000010)
IsJump(w) == Hi(w) \div 1024 = 2

\* (p & 0xF0000000) | (t << 2), t the low 26 bits of word w
JumpTarget(p, w) ==
    W((Hi(p) \div 4096) * 4096 + (Hi(w) % 1024) * 4 + (Lo(w) \div 16384),
      (Lo(w) * 4) % 65536)

\* addr lies in the boot-ROM range [0xbfc00000, 0xbfc00000 + 512 * 1024)
InBootRom(addr) ==
    /\ Ge32(addr, W(\Hbfc0, \H0000))
    /\ Lt32(addr, W(\Hbfc8, \H0000))

\* addr lies in one of the three writable mappings
InWritable(addr) ==
    \/ (Ge32(addr, W(\H1f80, \H1000)) /\ Lt32(addr, W(\H1f80, \H1024)))
    \/ (Ge32(addr, W(\H1f80, \H1060)) /\ Lt32(addr, W(\H1f80, \H1064)))
    \/ (Ge32(addr, W(\Hfffe, \H0130)) /\ Lt32(addr, W(\Hfffe, \H0134)))

\* step k of the run passed a J instruction to execute_instr
JumpStep(k) == step_log[k].fetched /\ IsJump(step_log[k].instr)

\* the k-th word of the boot image, k from 0
RomWord(k) ==
    W(bios[4 * k + 3] + 256 * bios[4 * k + 4], bios[4 * k + 1] + 256 * bios[4 * k + 2])

\* C1: when a step executes J, the very next step executes the word fetched
\* from the address after the J (the delay slot), and the step after that the
\* word at the jump target.
C1_DelaySlotRunsNext ==
    \A k \in 1..Len(step_log) :
        (JumpStep(k) /\ k < Len(step_log)) =>
            /\ step_log[k + 1].fetched
            /\ step_log[k + 1].instr = step_log[k].next
            /\ step_log[k + 1].pc = step_log[k].pc_after
            /\ (k + 2 <= Len(step_log) /\ step_log[k + 2].fetched) =>
                    step_log[k + 2].instr = step_log[k + 1].next

\* pc values a step may start from, the last word of each 256 MB segment included
PcValues == {W(\Hbfc0, \H0000), W(\Hbfc7, \HFFFC), W(\Hbfc8, \H0000),
             W(\HbFFF, \HFFFC), W(\H0FFF, \HFFFC), W(\HFFFF, \HFFFC)}

\* a step from pc = p with word w in flight
StepFrom(p, w) ==
    run_single_cycle([pc |-> p, next_instruction |-> w, registers |-> registers,
                      instruction_history |-> <<>>])

C3_FaultsAreReturned ==
    /\ panicked = ""
    /\ \A k \in 1..Len(step_log) : step_log[k].panic = ""

\* C4: register 0 holds 0 in every state reached by run_single_cycle,
\* execute_instr and set_register calls.
C4_RegisterZeroIsZero == registers[0] = W(0, 0)

C4_Witness ==
    /\ ret.call = "set_register"
    /\ ret.res.idx = 0
    /\ ret.res.val # W(0, 0)
    /\ \E k \in 1..Len(instruction_history) : instruction_history[k].raw = LUI_0

\* C5: pc is a multiple of 4 in every state of a run, and every instruction
\* fetch is issued at a multiple of 4.
C5_PcAligned ==
    /\ pc[2] % 4 = 0
    /\ \A k \in 1..Len(step_log) : step_log[k].pc[2] % 4 = 0
    /\ \A i \in 1..Len(bus_log) : bus_log[i].op = "load32" => bus_log[i].addr[2] % 4 = 0

C5_Witness ==
    /\ Len(step_log) >= 4
    /\ panicked = ""
    /\ \E k \in 1..Len(step_log) : JumpStep(k) /\ step_log[k].instr = J_BIOS_2
    /\ pc # W(\Hbfc0, 4 * Len(step_log))

\* C6: load32 of a 4-aligned address outside the boot-ROM range returns the
\* unmapped-address fault and reads no device.
C6_UnmappedLoadFaults ==
    (ret.call = "load32" /\ ret.addr[2] % 4 = 0 /\ ~InBootRom(ret.addr)) =>
        /\ panicked = ""
        /\ ret.res.kind = "Err"
        /\ ret.res.err = "not in range for any peripheral"
        /\ bus_log = <<>>

\* C7: the free-running driver makes no run_single_cycle call after one that
\* returned a fault.
C7_DriverStopsOnFault ==
    \A k \in 1..Len(step_log) :
        (step_log[k].panic = "" /\ step_log[k].ret.kind # "Ok") => k = Len(step_log)

\* C8: when the word at 0xbfc00000 is J with target index t, two steps from
\* pc = 0xbfc00000 leave pc = 0xb0000000 | (t << 2).
C8_JumpAtResetVector ==
    \A k \in 1..Len(step_log) :
        (/\ step_log[k].pc = W(\Hbfc0, \H0000)
         /\ IsJump(RomWord(0))
         /\ k < Len(step_log)
         /\ (k = 1 \/ step_log[k + 1].fetched)) =>
            /\ step_log[k].panic = ""
            /\ step_log[k + 1].panic = ""
            /\ step_log[k + 1].pc_after = JumpTarget(W(\Hb000, \H0000), RomWord(0))

C8_Witness ==
    /\ Len(step_log) = 2
    /\ RomWord(0) = J_TOP
    /\ pc = W(\HbFFF, \HFFFC)

\* every call of the run so far returned Ok
AllSucceeded ==
    \A k \in 1..Len(step_log) : step_log[k].panic = "" /\ step_log[k].ret.kind = "Ok"

\* C9: after n steps that all succeeded the trace holds n entries, the first
\* with raw word 0 and the k-th with the word fetched in step k - 1 at the pc
\* that step began with.
C9_TraceFollowsFetches ==
    AllSucceeded =>
        /\ Len(instruction_history) = Len(step_log)
        /\ \A k \in 1..Len(step_log) :
              /\ instruction_history[k].raw = step_log[k].instr
              /\ k = 1 => instruction_history[k].raw = W(0, 0)
              /\ k > 1 => /\ instruction_history[k].raw = step_log[k - 1].next
                          /\ step_log[k - 1].next = load32(step_log[k - 1].pc).val

C9_Witness ==
    /\ AllSucceeded
    /\ Len(step_log) = 4
    /\ instruction_history[2].raw = J_BIOS_2
    /\ instruction_history[3].raw = LUI_1
    /\ instruction_history[4].raw = SW_2_RAMSIZE

\* a store to a 4-aligned address outside the writable mappings was issued
UnmappedStore(log) ==
    \E i \in 1..Len(log) :
        /\ log[i].op = "store32"
        /\ log[i].addr[2] % 4 = 0
        /\ ~InWritable(log[i].addr)

\* C10: a store to a 4-aligned address in no writable mapping ends the
\* process: the instruction that issued it changes no register and leaves no
\* trace entry, and no call is served afterwards.
C10_UnmappedStoreHalts ==
    [][/\ (panicked = "" /\ UnmappedStore(bus_log')) =>
              /\ panicked' = "not yet implemented"
              /\ registers' = registers
              /\ instruction_history' = instruction_history
              /\ bios' = bios
       /\ panicked # "" => UNCHANGED vars]_vars

C10_Witness ==
    /\ panicked = "not yet implemented"
    /\ \E i \in 1..Len(bus_log) : bus_log[i].op = "store32" /\ bus_log[i].addr = W(\H1f80, \H1024)

\* the primary opcodes with an entry in the Opcode table
MappedPrimary == {0, 2, 9, 13, 15, 43}

\* bits 31..26 of word w
PrimaryBits(w) == Hi(w) \div 1024

\* the low 26 bits tried under every primary opcode
LowBits == {W(0, 0), W(\H03FF, \HFFFF), W(\H0022, \H0825)}

\* C11: execute_instr on a word whose bits 31..26 are none of 0, 0x02, 0x09,
\* 0x0D, 0x0F, 0x2B returns UnknownInstruction carrying that word, and never
\* success; for the words a caller passed, and for every such opcode from the
\* register states reached by one call.
C11_UnknownInstructionReturned ==
    /\ (ret.call = "execute_instr" /\ PrimaryBits(ret.word) \notin MappedPrimary) =>
            /\ panicked = ""
            /\ ret.res = [kind |-> "UnknownInstruction", word |-> ret.word]
    /\ ncalls <= 1 =>
          \A op \in (0..63) \ MappedPrimary, low \in LowBits :
             \A w \in {W(op * 1024 + Hi(low), Lo(low))} :
                \A o \in {execute_instr(Self, w)} :
                   /\ o.panic = ""
                   /\ o.ret = [kind |-> "UnknownInstruction", word |-> w]

C11_Witness ==
    /\ ncalls = 2
    /\ ret.call = "execute_instr"
    /\ ret.word = UNKNOWN
    /\ ret.res = [kind |-> "UnknownInstruction", word |-> W(\HFFFF, \HFFFF)]
    /\ registers[3] = W(\H7FFF, \HFFFF)

\* the secondary opcodes with an entry in the SecondaryOpcode table
MappedSecondary == {0, 37}

\* bits 5..0 of word w
SecondaryBits(w) == Lo(w) % 64

\* bits 25..6 tried under every secondary opcode (primary opcode 0)
MidBits == {W(0, 0), W(\H03FF, \HFFC0), W(\H0001, \H0900)}

\* C12: execute_instr on a word with primary opcode 0 whose bits 5..0 are
\* neither 0 (SLL) nor 0x25 (OR) returns UnknownSecondaryOpInstruction carrying
\* that word, never UnknownInstruction and never success; for the words a
\* caller passed, and for every such secondary opcode from the register states
\* reached by one call.
C12_UnknownSecondaryOpReturned ==
    /\ (/\ ret.call = "execute_instr"
        /\ PrimaryBits(ret.word) = 0
        /\ SecondaryBits(ret.word) \notin MappedSecondary) =>
            /\ panicked = ""
            /\ ret.res = [kind |-> "UnknownSecondaryOpInstruction", word |-> ret.word]
    /\ ncalls <= 1 =>
          \A sp \in (0..63) \ MappedSecondary, mid \in MidBits :
             \A w \in {W(Hi(mid), Lo(mid) + sp)} :
                \A o \in {execute_instr(Self, w)} :
                   /\ o.panic = ""
                   /\ o.ret = [kind |-> "UnknownSecondaryOpInstruction", word |-> w]

C12_Witness ==
    /\ ncalls = 2
    /\ ret.call = "execute_instr"
    /\ ret.word = UNKNOWN_SOP_1
    /\ ret.res = [kind |-> "UnknownSecondaryOpInstruction", word |-> W(\H0001, \H093F)]
    /\ registers[1] = W(\HFFFF, \HFFFF)

\* the three addresses that share the aligned word of address a
Unaligned(a) == {W(Hi(a), Lo(a) - (Lo(a) % 4) + k) : k \in 1..3}

\* C13: load32 and store32 of an address that is not a multiple of 4 return
\* the unaligned-address fault whatever range the address lies in; no device is
\* read or written and neither the Cpu nor the boot image changes.
C13_UnalignedFaults ==
    [][/\ (/\ ret'.call \in {"load32", "store32"}
           /\ ncalls' = ncalls + 1
           /\ ret'.addr[2] % 4 # 0) =>
              /\ panicked' = ""
              /\ ret'.res.kind = "Err"
              /\ ret'.res.err = "not aligned"
              /\ ret'.call = "load32" => bus_log' = <<>>
              /\ ret'.call = "store32" => ret'.res.dev = "none"
              /\ UNCHANGED <<cpuVars, bios>>
       /\ ncalls = 0 =>
              \A a \in Addresses : \A u \in Unaligned(a) :
                 /\ load32(u) = [kind |-> "Err", err |-> "not aligned",
                                 val |-> W(0, 0), dev |-> <<>>]
                 /\ \A v \in StoreValues :
                       store32(u, v) = [kind |-> "Err", err |-> "not aligned",
                                        dev |-> "none"]]_vars

C13_Witness ==
    /\ ncalls = 2
    /\ ret.call = "store32"
    /\ ret.addr = W(\H1f80, \H1062)
    /\ ret.res.kind = "Err"
    /\ ret.res.err = "not aligned"
    /\ panicked = ""

\* values around the two legal ones
ConfigValues == {W(h, l) : h \in {0, \H1f00, \H1f80, \HFFFF}, l \in {0, 1, \H2000, \HFFFF}}

\* the outcome r of a store of value v to a validated register whose one
\* legal value is legal, the fault naming the register as name
Validated(r, v, legal, name) ==
    /\ r.kind \in {"Ok", "Err"}
    /\ r.kind = "Ok" <=> v = legal
    /\ r.kind = "Err" => r.err = name

\* C14: store32 to 0x1f801000 succeeds exactly when the value is 0x1f000000
\* and store32 to 0x1f801004 exactly when it is 0x1f802000; every other value
\* written to either address is refused with the invalid-configuration fault.
C14_MemControlValidated ==
    /\ (ret.call = "store32" /\ ret.addr = W(\H1f80, \H1000)) =>
            /\ panicked = ""
            /\ Validated(ret.res, ret.val, W(\H1f00, 0), "bad expansion 1 base address")
    /\ (ret.call = "store32" /\ ret.addr = W(\H1f80, \H1004)) =>
            /\ panicked = ""
            /\ Validated(ret.res, ret.val, W(\H1f80, \H2000), "bad expansion 2 base address")
    /\ ncalls = 0 =>
          \A v \in ConfigValues :
             /\ Validated(store32(W(\H1f80, \H1000), v), v, W(\H1f00, 0),
                          "bad expansion 1 base address")
             /\ Validated(store32(W(\H1f80, \H1004), v), v, W(\H1f80, \H2000),
                          "bad expansion 2 base address")

C14_Witness ==
    /\ ncalls = 2
    /\ ret.call = "store32"
    /\ ret.addr = W(\H1f80, \H1004)
    /\ ret.val = W(\H1f00, \H0000)
    /\ ret.res.kind = "Err"
    /\ ret.res.err = "bad expansion 2 base address"

\* offsets into the boot image read back after a store: its first byte, a
\* byte of its third word and its last byte
ProbeOffsets == {W(0, 0), W(0, 9), W(7, \HFFFF)}

\* C15: a store32 that the bus accepts changes nothing: every value written
\* to the RAM-size register 0x1f801060 or the cache-control register
\* 0xfffe0130 is accepted, and after an accepted store the Cpu and the boot
\* image are as before, so that a load32 reads the bytes it read before.
C15_AcceptedStoreHasNoEffect ==
    [][(ret'.call = "store32" /\ ncalls' = ncalls + 1) =>
          /\ ret'.addr \in {W(\H1f80, \H1060), W(\Hfffe, \H0130)} => ret'.res.kind = "Ok"
          /\ ret'.res.kind = "Ok" =>
                /\ panicked' = ""
                /\ bios' = bios
                /\ overflow_checks' = overflow_checks
                /\ UNCHANGED cpuVars
                /\ \A i \in ProbeOffsets : DataAt(i)' = DataAt(i)]_vars

C15_Witness ==
    /\ ncalls = 3
    /\ ret.call = "store32"
    /\ ret.addr = W(\Hfffe, \H0130)
    /\ ret.val = W(\H1f00, \H0001)
    /\ ret.res.kind = "Ok"
    /\ bios = Image(<<J_BIOS_2, LUI_1, SW_2_RAMSIZE>>)

\* a store was issued on the bus
StoreIssued(log) == \E i \in 1..Len(log) : log[i].op = "store32"

\* C16: when run_single_cycle or execute_instr returns a fault, the faulting
\* instruction has had no effect: all 32 registers are as before the call and
\* the call issued no bus store.
C16_FaultIsAtomic ==
    [][(/\ ret'.call \in {"run_single_cycle", "execute_instr"}
        /\ ncalls' = ncalls + 1
        /\ panicked' = ""
        /\ ret'.res.kind # "Ok") =>
            /\ \A i \in 0..31 : registers'[i] = registers[i]
            /\ ~StoreIssued(bus_log')]_vars

C16_Witness ==
    /\ ncalls = 3
    /\ ret.call = "run_single_cycle"
    /\ ret.res.kind = "UnknownInstruction"
    /\ panicked = ""
    /\ registers[1] = W(\HFFFF, \HFFFF)

\* register 0 holds 0 and registers 1..31 hold 0xdeadbeef
FreshRegisters ==
    /\ registers[0] = W(0, 0)
    /\ \A i \in 1..31 : registers[i] = W(\Hdead, \Hbeef)

\* C17: after Cpu::new() pc = 0xbfc00000, register 0 is 0, registers 1..31
\* hold 0xdeadbeef and the trace is empty; the first run_single_cycle executes
\* a no-op, not the word at the boot vector: it changes no register, issues no
\* store and leaves pc = 0xbfc00004 with the boot-vector word in
\* next_instruction.
C17_InitialState ==
    /\ Len(step_log) = 0 =>
          /\ pc = W(\Hbfc0, \H0000)
          /\ FreshRegisters
          /\ instruction_history = <<>>
    /\ Len(step_log) = 1 =>
          /\ panicked = ""
          /\ step_log[1].pc = W(\Hbfc0, \H0000)
          /\ step_log[1].instr = W(0, 0)
          /\ step_log[1].ret.kind = "Ok"
          /\ FreshRegisters
          /\ ~StoreIssued(bus_log)
          /\ pc = W(\Hbfc0, \H0004)
          /\ next_instruction = RomWord(0)

C17_Witness ==
    /\ Len(step_log) = 1
    /\ RomWord(0) = SW_1_0
    /\ next_instruction = W(\HAC01, \H0000)
    /\ pc = W(\Hbfc0, \H0004)
    /\ Len(instruction_history) = 1

\* set_register(i, v) then get_register(j), from the Cpu of this state
GetAfterSet(i, v, j) == get_register(set_register(Self, i, v), j)

\* C18: for an index i in 1..31 and a value v, get_register(i) after
\* set_register(i, v) is v and every other register keeps its value; for the
\* calls a caller made, and for every index from the register states reached
\* by one call.
C18_SetThenGet ==
    /\ [][(/\ ret'.call = "set_register"
            /\ ncalls' = ncalls + 1
            /\ ret'.res.idx # 0) =>
                /\ registers'[ret'.res.idx] = ret'.res.val
                /\ \A j \in 0..31 : j # ret'.res.idx => registers'[j] = registers[j]]_vars
    /\ [](ncalls <= 1 =>
            \A i \in 1..31, v \in AnyValues :
               \A j \in 0..31 :
                  GetAfterSet(i, v, j) = IF j = i THEN v ELSE get_register(Self, j))

C18_Witness ==
    /\ ncalls = 2
    /\ ret.call = "set_register"
    /\ ret.res.idx = 31
    /\ registers[31] = W(\H7FFF, \HFFFF)
    /\ registers[1] = W(\H1234, \H0000)
    /\ registers[3] = W(\Hdead, \Hbeef)

\* bits 25..21 and bits 20..16 of word w
RsBits(w) == (Hi(w) \div 32) % 32
RtBits(w) == Hi(w) % 32

\* (a + imm) mod 2^32, the 16-bit imm read as a two's complement number
AddSigned(a, imm) ==
    LET d  == IF imm >= 32768 THEN imm - 65536 ELSE imm
        lo == Lo(a) + d
        c  == IF lo >= 65536 THEN 1 ELSE IF lo < 0 THEN -1 ELSE 0
    IN  W((Hi(a) + c + 65536) % 65536, (lo + 65536) % 65536)

\* register values and immediates at the edges of the ranges
EdgeValues == {W(0, 0), W(0, 1), W(0, \H8000), W(0, \HFFFF), W(\H7FFF, \HFFFF),
               W(\H8000, 0), W(\HFFFF, 0), W(\HFFFF, \HFFFF)}
EdgeImmediates == {0, 1, \H7FFF, \H8000, \HFFFC, \HFFFF}

\* C19: executing ADDIU leaves (get(rs) + sign_extend(immediate)) mod 2^32 in
\* register rt (rt # 0), changes no other register and returns Ok without a
\* panic, whatever the sum; for the words a caller passed, and for ADDIU $4,
\* $3, imm with register 3 and imm at the edges of their ranges.
C19_AddiuWraps ==
    /\ [][(/\ ret'.call = "execute_instr"
            /\ ncalls' = ncalls + 1
            /\ PrimaryBits(ret'.word) = 9) =>
                /\ panicked' = ""
                /\ ret'.res.kind = "Ok"
                /\ \A j \in 0..31 :
                      registers'[j] =
                         IF j = 0 THEN W(0, 0)
                         ELSE IF j = RtBits(ret'.word)
                              THEN AddSigned(registers[RsBits(ret'.word)], Lo(ret'.word))
                              ELSE registers[j]]_vars
    /\ [](ncalls <= 1 =>
            \A v \in EdgeValues, imm \in EdgeImmediates :
               \A o \in {execute_instr(set_register(Self, 3, v), W(\H2464, imm))} :
                  /\ o.panic = ""
                  /\ o.ret.kind = "Ok"
                  /\ o.cpu.registers[4] = AddSigned(v, imm)
                  /\ o.cpu.registers[3] = v)

C19_Witness ==
    /\ ncalls = 2
    /\ ret.call = "execute_instr"
    /\ ret.word = W(\H2464, \H0001)
    /\ ret.res.kind = "Ok"
    /\ registers[3] = W(\HFFFF, \HFFFF)
    /\ registers[4] = W(0, 0)

\* the registers regs after register rt was loaded with imm << 16
AfterLui(regs, rt, imm) ==
    [j \in 0..31 |-> IF j = 0 THEN W(0, 0) ELSE IF j = rt THEN W(imm, 0) ELSE regs[j]]

\* C20: executing LUI with target rt and immediate imm leaves imm << 16 (low
\* 16 bits zero) in register rt when rt # 0 and every other register,
\* register 0 included, as it was, whatever the rs field; for the words a
\* caller passed, and for every rs field from the register states reached by
\* one call.
C20_LuiLoadsUpper ==
    /\ [][(/\ ret'.call = "execute_instr"
            /\ ncalls' = ncalls + 1
            /\ PrimaryBits(ret'.word) = 15) =>
                /\ panicked' = ""
                /\ ret'.res.kind = "Ok"
                /\ registers' = AfterLui(registers, RtBits(ret'.word), Lo(ret'.word))]_vars
    /\ [](ncalls <= 1 =>
            \A rs \in 0..31, rt \in {0, 1, 31}, imm \in EdgeImmediates :
               \A o \in {execute_instr(Self, W(15 * 1024 + rs * 32 + rt, imm))} :
                  /\ o.panic = ""
                  /\ o.ret.kind = "Ok"
                  /\ o.cpu.registers = AfterLui(registers, rt, imm))

C20_Witness ==
    /\ ncalls = 2
    /\ ret.call = "execute_instr"
    /\ ret.word = LUI_1_RS
    /\ ret.res.kind = "Ok"
    /\ registers[1] = W(\H1234, \H0000)
    /\ registers[3] = W(\HFFFF, \HFFFF)
    /\ registers[31] = W(\Hdead, \Hbeef)

\* bit i of the number x
Bit(x, i) == (x \div 2 ^ i) % 2

\* the bitwise or of the numbers a and b below 2^n
RECURSIVE BitOr(_, _, _)
BitOr(a, b, n) ==
    IF n = 0 THEN 0
    ELSE BitOr(a, b, n - 1)
         + (IF Bit(a, n - 1) = 1 \/ Bit(b, n - 1) = 1 THEN 2 ^ (n - 1) ELSE 0)

\* the registers regs after register rt was set to regs[rs] | imm
AfterOri(regs, rs, rt, imm) ==
    [j \in 0..31 |->
        IF j = 0 THEN W(0, 0)
        ELSE IF j = rt THEN W(regs[rs][1], BitOr(regs[rs][2], imm, 16))
        ELSE regs[j]]

\* C21: executing ORI leaves get(rs) | immediate in register rt (rt # 0), the
\* immediate zero-extended: the upper 16 bits of the result are those of
\* register rs, whatever rt held; for the words a caller passed, and for ORI
\* $2, $1, imm with register 1 and imm at the edges of their ranges.
C21_OriZeroExtends ==
    /\ [][(/\ ret'.call = "execute_instr"
            /\ ncalls' = ncalls + 1
            /\ PrimaryBits(ret'.word) = 13) =>
                /\ panicked' = ""
                /\ ret'.res.kind = "Ok"
                /\ registers' = AfterOri(registers, RsBits(ret'.word), RtBits(ret'.word),
                                         Lo(ret'.word))]_vars
    /\ [](ncalls <= 1 =>
            \A v \in EdgeValues, imm \in EdgeImmediates :
               \A o \in {execute_instr(set_register(Self, 1, v), W(\H3422, imm))} :
                  /\ o.panic = ""
                  /\ o.cpu.registers[2][1] = v[1]
                  /\ o.cpu.registers[2][2] = BitOr(v[2], imm, 16)
                  /\ o.cpu.registers[1] = v)

C21_Witness ==
    /\ ncalls = 2
    /\ ret.call = "execute_instr"
    /\ ret.word = W(\H3422, \H00FF)
    /\ registers[1] = W(\H0000, \HFF00)
    /\ registers[2] = W(\H0000, \HFFFF)

\* the stores among the bus accesses of log
Stores(log) == SelectSeq(log, LAMBDA e : e.op = "store32")

\* log holds exactly one store, of value v to address a
OneStore(log, a, v) ==
    /\ Len(Stores(log)) = 1
    /\ Stores(log)[1].addr = a
    /\ Stores(log)[1].val = v

\* C22: executing SW issues exactly one bus store, of the value get(rt) to
\* the address (get(base) + sign_extend(offset)) mod 2^32, base being the
\* register named by bits 25..21, and changes no register; whether or not the
\* bus accepts the store.
C22_SwIssuesOneStore ==
    /\ [][/\ (/\ ret'.call = "execute_instr"
              /\ ncalls' = ncalls + 1
              /\ PrimaryBits(ret'.word) = 43) =>
                 /\ OneStore(bus_log',
                             AddSigned(registers[RsBits(ret'.word)], Lo(ret'.word)),
                             registers[RtBits(ret'.word)])
                 /\ registers' = registers
          /\ (/\ ret'.call = "run_single_cycle"
              /\ ncalls' = ncalls + 1
              /\ bus_log'[1].res.kind = "Ok"
              /\ PrimaryBits(next_instruction) = 43) =>
                 /\ OneStore(bus_log',
                             AddSigned(registers[RsBits(next_instruction)],
                                       Lo(next_instruction)),
                             registers[RtBits(next_instruction)])
                 /\ registers' = registers]_vars
    /\ [](ncalls <= 1 =>
            \A v \in EdgeValues, imm \in EdgeImmediates :
               \A o \in {execute_instr(set_register(Self, 1, v), W(\HAC22, imm))} :
                  /\ OneStore(o.bus, AddSigned(v, imm), registers[2])
                  /\ o.cpu.registers = set_register(Self, 1, v).registers)

C22_Witness ==
    /\ ncalls = 3
    /\ ret.call = "execute_instr"
    /\ ret.word = SW_2_RAMSIZE
    /\ ret.res.kind = "Ok"
    /\ registers[1] = W(\H1F80, \H0000)
    /\ registers[2] = W(\Hdead, \Hbeef)
    /\ OneStore(bus_log, W(\H1F80, \H1060), W(\Hdead, \Hbeef))

\* bits 15..11 and bits 10..6 of word w
RdBits(w) == Lo(w) \div 2048
SaBits(w) == (Lo(w) \div 64) % 32

\* a doubled n times, mod 2^32
RECURSIVE Doubled(_, _)
Doubled(a, n) ==
    IF n = 0 THEN a
    ELSE Doubled(W((2 * a[1] + a[2] \div 32768) % 65536, (2 * a[2]) % 65536), n - 1)

\* the registers regs after register rd was set to regs[rt] << n
AfterSll(regs, rt, rd, n) ==
    [j \in 0..31 |->
        IF j = 0 THEN W(0, 0) ELSE IF j = rd THEN Doubled(regs[rt], n) ELSE regs[j]]

\* C23: executing SLL (primary opcode 0, secondary opcode 0) leaves
\* (get(rt) << shift_amount) mod 2^32, zero filled, in register rd (rd # 0),
\* and returns Ok without a panic for every shift amount 0..31; for the words
\* a caller passed, and for SLL $2, $1, n with every n and register 1 at the
\* edges of its range.
C23_SllShifts ==
    /\ [][(/\ ret'.call = "execute_instr"
            /\ ncalls' = ncalls + 1
            /\ PrimaryBits(ret'.word) = 0
            /\ SecondaryBits(ret'.word) = 0) =>
                /\ panicked' = ""
                /\ ret'.res.kind = "Ok"
                /\ registers' = AfterSll(registers, RtBits(ret'.word), RdBits(ret'.word),
                                         SaBits(ret'.word))]_vars
    /\ [](ncalls <= 1 =>
            \A v \in EdgeValues, n \in 0..31 :
               \A o \in {execute_instr(set_register(Self, 1, v), W(1, 4096 + 64 * n))} :
                  /\ o.panic = ""
                  /\ o.ret.kind = "Ok"
                  /\ o.cpu.registers[2] = Doubled(v, n)
                  /\ o.cpu.registers[1] = v)

C23_Witness ==
    /\ ncalls = 2
    /\ ret.call = "execute_instr"
    /\ ret.word = SLL_2_1_31
    /\ ret.res.kind = "Ok"
    /\ registers[1] = W(\HFFFF, \HFFFF)
    /\ registers[2] = W(\H8000, \H0000)

\* upper and lower halves of the instruction words decoded
UpperHalves == {0, \H2464, \H3422, \H8000, \HAC22, \HFFFF}
LowerHalves == {0, 1, \H1234, \H7FFF, \H8000, \H8001, \HFFFC, \HFFFF}

\* the immediate fields of word w are as specified
ImmediatesDecoded(w) ==
    /\ immediate(w) = <<0, w[2]>>
    /\ immediate_sign_extended(w) = <<IF Bit(w[2], 15) = 1 THEN \HFFFF ELSE 0, w[2]>>
    /\ offset_sign_extended(w) = immediate_sign_extended(w)

\* C24: for an instruction word, immediate_sign_extended and the offset of
\* the memory instructions are the low 16 bits when bit 15 is 0 and the low 16
\* bits plus 0xFFFF0000 when bit 15 is 1, and immediate is the low 16 bits
\* zero-extended; for the words a caller executed and for the words made of
\* the upper and lower halves above.
C24_ImmediateExtension ==
    /\ ret.call = "execute_instr" => ImmediatesDecoded(ret.word)
    /\ \A w \in AnyWords : ImmediatesDecoded(w)
    /\ ncalls = 0 => \A hi \in UpperHalves, lo \in LowerHalves : ImmediatesDecoded(W(hi, lo))

C24_Witness ==
    /\ ncalls = 2
    /\ ret.call = "execute_instr"
    /\ ret.word = ADDIU_1_3_MIN
    /\ immediate_sign_extended(ret.word) = W(\HFFFF, \H8000)
    /\ registers[3] = W(0, 0)
    /\ registers[1] = W(\HFFFF, \H8000)

\* byte k of the boot image, k from 0 and below its length
ByteAt(k) == IF k < Len(bios) THEN bios[k + 1] ELSE 0

\* word v is made of the four image bytes from offset o on, the first the
\* least significant, and gives them back
WordOfBytes(v, o) ==
    /\ v = <<ByteAt(o + 2) + 256 * ByteAt(o + 3), ByteAt(o) + 256 * ByteAt(o + 1)>>
    /\ v[2] % 256 = ByteAt(o)
    /\ v[2] \div 256 = ByteAt(o + 1)
    /\ v[1] % 256 = ByteAt(o + 2)
    /\ v[1] \div 256 = ByteAt(o + 3)

\* the offsets read: every offset of the leading words of the image (aligned
\* or not, into the bytes after them) and the last word of the image
RomOffsets == (0..(Len(bios) + 1)) \cup {512 * 1024 - 4}

\* C25: for a boot-ROM offset o with o + 3 inside the image, the boot ROM's
\* load32(o) is byte[o] | byte[o+1] << 8 | byte[o+2] << 16 | byte[o+3] << 24,
\* from which the four bytes are recovered; for the loads a caller made through
\* the bus and for the offsets above.
C25_LittleEndianLoad ==
    /\ (ret.call = "load32" /\ ret.res.kind = "Ok") =>
            WordOfBytes(ret.res.val, (ret.addr[1] - \Hbfc0) * 65536 + ret.addr[2])
    /\ ncalls = 0 =>
          \A o \in RomOffsets :
             \A r \in {Bios_load32(W(o \div 65536, o % 65536))} :
                r.kind = "Ok" /\ WordOfBytes(r.val, o)

C25_Witness ==
    /\ ncalls = 2
    /\ ret.call = "load32"
    /\ ret.addr = W(\Hbfc0, \H0000)
    /\ ret.res.kind = "Ok"
    /\ ret.res.val = W(\H0BF0, \H0002)
    /\ bios[1] = 2
    /\ bios[4] = 11

\* the last run_single_cycle call returned a fault
Faulted ==
    /\ Len(step_log) > 0
    /\ step_log[Len(step_log)].ret.kind \in
          {"UnknownInstruction", "UnknownSecondaryOpInstruction"}

\* C26: in the debugger, in auto and in interactive mode, once a
\* run_single_cycle call has returned a fault no run_single_cycle call is made
\* again: the debugger redraws once on the fault, and from then on a resize
\* event redraws, a quit event ends the process and any other event does
\* nothing.
C26_DebuggerHaltsOnFault ==
    [][/\ (~Faulted /\ Faulted') =>
              /\ debugger'.displays = debugger.displays + 1
              /\ debugger'.at = "final loop"
       /\ Faulted =>
              /\ debugger.at = "final loop"
              /\ step_log' = step_log
              /\ ncalls' = ncalls
              /\ UNCHANGED cpuVars
              /\ debugger'.last \in {"Quit", "Resize", "Next"}
              /\ debugger'.displays =
                    debugger.displays + (IF debugger'.last = "Resize" THEN 1 ELSE 0)
              /\ debugger'.at = IF debugger'.last = "Quit" THEN "exited" ELSE "final loop"]_vars

C26_Witness ==
    /\ Faulted
    /\ debugger.auto
    /\ debugger.at = "exited"
    /\ debugger.events = 3
    /\ debugger.displays = 4
    /\ Len(step_log) = 2

\* C27: every range test of the bus is addr >= start /\ addr < end: load32
\* hands an address to the boot ROM only when it lies in [0xbfc00000,
\* 0xbfc00000 + 512 * 1024), with an offset below 512 * 1024 and without the
\* subtraction addr - start underflowing, and store32 hands a write to the
\* memory-control registers only for an address in their range.
C27_RangeChecksAreHalfOpen ==
    /\ ret.call = "load32" =>
          /\ panicked # "attempt to subtract with overflow"
          /\ \A i \in 1..Len(bus_log) :
                bus_log[i].op = "bios.load32" =>
                   /\ InBootRom(ret.addr)
                   /\ Lt32(bus_log[i].addr, W(8, 0))
    /\ (ret.call = "store32" /\ ret.res.dev = "MEM_CONTROL") =>
          /\ Ge32(ret.addr, W(\H1f80, \H1000))
          /\ Lt32(ret.addr, W(\H1f80, \H1024))

\* the run_single_cycle calls that returned, with success or with a fault
Completed == {k \in 1..Len(step_log) : step_log[k].panic = ""}

\* C28: every run_single_cycle call that returns, with success or with a
\* fault, has appended exactly one trace entry, for the word it attempted: the
\* trace is as long as the number of calls that returned and its last entry
\* is for the word of the last such call.
C28_TraceCountsEveryStep ==
    /\ Len(instruction_history) = Cardinality(Completed)
    /\ (Len(step_log) > 0 /\ panicked = "") =>
          /\ Len(instruction_history) > 0
          /\ instruction_history[Len(instruction_history)].raw = step_log[Len(step_log)].instr

\* the register indices decoded from word w index the register file
IndicesInRange(w) ==
    {gpr_rs(w), gpr_rt(w), gpr_rd(w), base(w)} \subseteq DOMAIN registers

\* C29: during a run_single_cycle or execute_instr call every register index
\* decoded from the instruction word (rs, rt, rd, base) is in 0..31, the
\* indices of the register file; for the words executed and for the words
\* made of the upper and lower halves above, all-ones fields included.
C29_RegisterIndexInRange ==
    /\ DOMAIN registers = 0..31
    /\ ret.call = "execute_instr" => IndicesInRange(ret.word)
    /\ \A k \in 1..Len(step_log) : IndicesInRange(step_log[k].instr)
    /\ ncalls = 0 =>
          \A hi \in UpperHalves \cup {\H03FF, \H001F, \H03E0},
             lo \in LowerHalves \cup {\HF800, \HF825} :
                IndicesInRange(W(hi, lo))

C29_Witness ==
    /\ ncalls = 2
    /\ ret.call = "execute_instr"
    /\ ret.word = OR_31_31_31
    /\ ret.res.kind = "Ok"
    /\ gpr_rd(ret.word) = 31
    /\ registers[31] = W(\HFFFF, \HFFFF)

\* step k returned UnknownInstruction or UnknownSecondaryOpInstruction
FaultStep(k) ==
    step_log[k].ret.kind \in {"UnknownInstruction", "UnknownSecondaryOpInstruction"}

\* C30: a fault is not retried: when run_single_cycle returns
\* UnknownInstruction or UnknownSecondaryOpInstruction, pc has advanced by 4
\* and next_instruction holds the word fetched by that call, so the next call
\* starts at the advanced pc and executes the word after the faulting one.
C30_FaultNotRetried ==
    \A k \in 1..Len(step_log) :
        FaultStep(k) =>
            /\ step_log[k].pc_after =
                  <<step_log[k].pc[1] + (step_log[k].pc[2] + 4) \div 65536,
                    (step_log[k].pc[2] + 4) % 65536>>
            /\ step_log[k].next = load32(step_log[k].pc).val
            /\ k = Len(step_log) =>
                  /\ pc = step_log[k].pc_after
                  /\ next_instruction = step_log[k].next
            /\ k < Len(step_log) =>
                  /\ step_log[k + 1].pc = step_log[k].pc_after
                  /\ step_log[k + 1].instr = step_log[k].next

C30_Witness ==
    /\ Len(step_log) = 3
    /\ RomWord(0) = UNKNOWN_SOP
    /\ RomWord(1) = LUI_1
    /\ FaultStep(2)
    /\ step_log[3].instr = LUI_1
    /\ step_log[3].ret.kind = "Ok"
    /\ registers[1] = W(\H1F80, \H0000)

\* the (address, value) pairs of the stores of a call's bus accesses
StoresIssued(bus) == [i \in 1..Len(bus) |-> <<bus[i].addr, bus[i].val>>]

\* C31: for every LUI, ORI and SW word and every register state,
\* execute_instr of the standalone binary's Cpu leaves the same register
\* file and issues the same bus store as execute_instr of psemu-core's Cpu
\* started from the same register state.
C31_StandaloneMatchesCore ==
    ret.call = "execute_instr" =>
        /\ standalone.cpu.registers = registers
        /\ StoresIssued(standalone.bus) = StoresIssued(bus_log)

\* the message the receiver task has taken from the channel and not yet pushed
Held == IF rx_task.at \in {"lock", "push"} THEN <<rx_task.msg>> ELSE <<>>

\* every message written is in one place only, the vector, the receiver
\* task or the channel, and these hold the messages in the order written
OnceAndInOrder == logs \o Held \o channel = written

\* the number of messages a run writes at most: one for each cycle
MaxMessages == MaxSteps

\* the i-th message written is the i-th line of the vector
Appended(i) == Len(logs) >= i /\ logs[i] = written[i]

\* C32 (as amended): in debug mode every message written to the
\* ChannelLogger is in the vector, held by the receiver task or in the
\* channel, exactly once and in the order written, under any interleaving
\* of the writer, the receiver task and the debugger's reads; and it is
\* eventually appended to the vector unless the process ends first.
C32_LoggedOnceInOrder ==
    /\ []OnceAndInOrder
    /\ \A i \in 1..MaxMessages : (Len(written) >= i) ~> (Appended(i) \/ Ended)

\* C32 as stated: every message written is eventually appended to the
\* vector, exactly once and in the order written.
C32_EveryMessageAppended ==
    /\ []OnceAndInOrder
    /\ \A i \in 1..MaxMessages : (Len(written) >= i) ~> Appended(i)

\* three messages were written while the receiver task and the debugger's
\* reads ran beside the writer, all three are in the vector in the order
\* written, and the debugger has drawn them
C32_Witness ==
    /\ Len(written) = 3
    /\ logs = written
    /\ written[1] # written[3]
    /\ debugger.shown = 3
    /\ debugger.at = "final loop"

=============================================================================
